---- MODULE Spec2Model ----
(***************************************************************************)
(* State-machine model of the two tiled kernels of the repository:         *)
(*   flashattention_2_layer  (src/unnamed/part_000)                        *)
(*   layernorm_layer         (src/sw/dnn/layernorm/src/layernorm.h)        *)
(* running on clusters of compute cores plus one data-mover (DM) core,     *)
(* with a per-cluster scratchpad (TCDM), an asynchronous DMA engine per    *)
(* cluster and hardware barriers.                                          *)
(*                                                                         *)
(* Memory is flat and word addressed: one word is one float, so every      *)
(* byte count of the source (n * sizeof(float)) is the word count n.       *)
(* Floats are modelled exactly: finite values are rationals, expf is the   *)
(* exponential to base 2 (it has every property of exp the kernels rely    *)
(* on: exp(a+b) = exp(a)exp(b), exp(0) = 1, monotone, positive), sqrtf is  *)
(* kept symbolic.                                                          *)
(***************************************************************************)
EXTENDS Integers, Sequences, FiniteSets, TLC

VARIABLES
    kernel,     \* "fa" or "ln": the kernel every core of the run executes
    cfg,        \* the configuration record (layer struct and topology)
    pc,         \* pc[core]: source line the core stands at
    loc,        \* loc[core]: the core's local variables (loop counters, tcdm_ptr)
    tcdm,       \* tcdm[cluster][addr]: scratchpad contents
    l3,         \* l3[tensor][addr]: main memory tensors
    dma,        \* dma[cluster]: transfers started and not yet completed (FIFO)
    nbar,       \* nbar[core]: barrier calls made in the current inner / outer iteration
    printed,    \* printed[core]: the lines the core has printed (printf), in order
    hist        \* observation record (what completed when), never read by the kernels

vars == <<kernel, cfg, pc, loc, tcdm, l3, dma, nbar, printed, hist>>

---------------------------------------------------------------------------
(* Bounds of the model *)

\* largest sequence length N of the attention runs
MaxN == 2
\* largest number of compute cores per cluster
MaxCores == 2
\* largest head dimension d of the attention runs
MaxD == 1
\* largest batch_size and seq_len of the layer normalisation runs
MaxBatch == 2
MaxSeqLen == 4
\* the embeddings of the layer normalisation runs
LnEmbeddings == 2

---------------------------------------------------------------------------
(* Exact arithmetic on floats.                                             *)
(* A value is a record [t, n, d, rn, rd]:                                  *)
(*   t = "fin"   the rational n/d (d > 0, lowest terms)                    *)
(*   t = "ninf"  -INFINITY                                                 *)
(*   t = "norm"  the quotient (n/d) / sqrt(rn/rd), kept symbolic           *)
(*   t = "other" any float outside the exact model (NaN, +inf, inexact)    *)

(* The operations are functions, so that their arguments are values.       *)

Gcd[a \in Nat, b \in Nat] == IF b = 0 THEN a ELSE Gcd[b, a % b]

Abs(x) == IF x < 0 THEN -x ELSE x

Fin[n \in Int, d \in Int] ==
    LET s == IF d < 0 THEN -1 ELSE 1
        g == Gcd[Abs(n), Abs(d)]
    IN  [t |-> "fin", n |-> (s * n) \div g, d |-> (s * d) \div g, rn |-> 0, rd |-> 1]

Num(n) == Fin[n, 1]
NegInf == [t |-> "ninf", n |-> 0, d |-> 1, rn |-> 0, rd |-> 1]
Other == [t |-> "other", n |-> 0, d |-> 1, rn |-> 0, rd |-> 1]

Float == [t : {"fin", "ninf", "norm", "other"}, n : Int, d : Int, rn : Int, rd : Int]

IsFin(a) == a.t = "fin"

FAdd[a \in Float, b \in Float] ==
    IF IsFin(a) /\ IsFin(b) THEN Fin[a.n * b.d + b.n * a.d, a.d * b.d]
    ELSE IF (a.t = "ninf" /\ b.t \in {"fin", "ninf"}) \/ (b.t = "ninf" /\ IsFin(a)) THEN NegInf
    ELSE Other

FSub[a \in Float, b \in Float] ==
    IF IsFin(a) /\ IsFin(b) THEN Fin[a.n * b.d - b.n * a.d, a.d * b.d]
    ELSE IF a.t = "ninf" /\ IsFin(b) THEN NegInf
    ELSE Other

FMul[a \in Float, b \in Float] ==
    IF IsFin(a) /\ IsFin(b) THEN Fin[a.n * b.n, a.d * b.d]
    ELSE Other

FDiv[a \in Float, b \in Float] ==
    IF IsFin(a) /\ IsFin(b) /\ b.n # 0 THEN Fin[a.n * b.d, a.d * b.n]
    ELSE IF IsFin(a) /\ b.t = "ninf" THEN Num(0)
    ELSE Other

\* a > b of C: false whenever an operand is NaN
FGt[a \in Float, b \in Float] ==
    IF IsFin(a) /\ IsFin(b) THEN a.n * b.d > b.n * a.d
    ELSE IsFin(a) /\ b.t = "ninf"

Pow2[k \in Nat] == IF k = 0 THEN 1 ELSE 2 * Pow2[k - 1]

\* expf: base-2 exponential, exact on integers; expf(-INFINITY) = 0
FExp[a \in Float] ==
    IF a.t = "ninf" THEN Num(0)
    ELSE IF IsFin(a) /\ a.d = 1
         THEN (IF a.n >= 0 THEN Num(Pow2[a.n]) ELSE Fin[1, Pow2[-a.n]])
         ELSE Other

\* the conversion of a float to int32_t: truncation towards zero
FloatToInt32[a \in Float] ==
    IF a.n >= 0 THEN a.n \div a.d ELSE -((-a.n) \div a.d)

IsSquare(k) == \E r \in 0 .. k : r * r = k
Root(k) == CHOOSE r \in 0 .. k : r * r = k

\* x / sqrtf(v): exact when v is the square of a rational, symbolic otherwise
FDivSqrt[x \in Float, v \in Float] ==
    IF ~(IsFin(x) /\ IsFin(v)) \/ v.n <= 0 THEN Other
    ELSE IF x.n = 0 THEN Num(0)
    ELSE IF IsSquare(v.n) /\ IsSquare(v.d) THEN FDiv[x, Fin[Root(v.n), Root(v.d)]]
    ELSE [t |-> "norm", n |-> x.n, d |-> x.d, rn |-> v.n, rd |-> v.d]

\* x * (1 / sqrtf(v)): the reciprocal root first, then the product
FMulRsqrt[x \in Float, v \in Float] ==
    LET r == FDivSqrt[Num(1), v]
    IN  IF IsFin(r) THEN FMul[x, r]
        ELSE IF r.t = "norm" /\ IsFin(x)
             THEN (IF x.n = 0 THEN Num(0)
                   ELSE [t |-> "norm", n |-> Fin[x.n * r.n, x.d * r.d].n,
                         d |-> Fin[x.n * r.n, x.d * r.d].d, rn |-> r.rn, rd |-> r.rd])
             ELSE Other

---------------------------------------------------------------------------
(* Topology queries of the runtime.  A core is <<cluster, index>>; the     *)
(* compute cores of a cluster have the indices 0 .. num_cores-1 and the    *)
(* data mover is the last core of the cluster.                             *)

Clusters == 0 .. cfg.num_clusters - 1
Cores == Clusters \X (0 .. cfg.num_cores)
CoresOf(cl) == {c \in Cores : c[1] = cl}

snrt_cluster_idx(c) == c[1]
snrt_cluster_core_idx(c) == c[2]
snrt_cluster_compute_core_num == cfg.num_cores
snrt_cluster_num == cfg.num_clusters
snrt_is_dm_core(c) == c[2] = cfg.num_cores
snrt_is_compute_core(c) == c[2] < cfg.num_cores
snrt_global_core_idx(c) == c[1] * (cfg.num_cores + 1) + c[2]
snrt_l1_next == 0

ComputeCoresOf(cl) == {c \in CoresOf(cl) : snrt_is_compute_core(c)}

---------------------------------------------------------------------------
(* DMA engine: snrt_dma_start_2d queues a strided 2D copy, the engine      *)
(* completes queued copies in order, snrt_dma_wait_all returns when none   *)
(* is outstanding.  A place is [mem, base]: mem is "tcdm" (the cluster's   *)
(* scratchpad) or the name of a main-memory tensor.                        *)

Place(mem, base) == [mem |-> mem, base |-> base]

snrt_dma_start_2d(dst, src, size, dst_stride, src_stride, repetitions) ==
    [dst |-> dst, src |-> src, size |-> size, dst_stride |-> dst_stride,
     src_stride |-> src_stride, repetitions |-> repetitions]

\* the destination addresses of transfer x
DmaDstAddrs(x) ==
    {x.dst.base + i * x.dst_stride + j : i \in 0 .. x.repetitions - 1, j \in 0 .. x.size - 1}

\* the source address whose word lands at destination address a
DmaSrcOf(x, a) ==
    LET ij == CHOOSE p \in (0 .. x.repetitions - 1) \X (0 .. x.size - 1) :
                  a = x.dst.base + p[1] * x.dst_stride + p[2]
    IN  x.src.base + ij[1] * x.src_stride + ij[2]

\* the contents of the destination memory after transfer x of cluster cl
DmaCopy(x, cl, dstmem) ==
    LET srcmem == IF x.src.mem = "tcdm" THEN tcdm[cl] ELSE l3[x.src.mem]
    IN  [a \in DOMAIN dstmem |->
            IF a \in DmaDstAddrs(x) THEN srcmem[DmaSrcOf(x, a)] ELSE dstmem[a]]

Wr(mem, a, v) == [mem EXCEPT ![a] = v]

\* sequencing of statements: F applied to the value of e, e evaluated once
Then(e, F(_)) == CHOOSE y \in {F(x) : x \in {e}} : TRUE

---------------------------------------------------------------------------
(* flashattention_2_layer: tiling parameters and scratchpad layout         *)

T_r == cfg.N \div cfg.B_r
T_c == cfg.N \div cfg.B_c

q_fa_size == cfg.B_r * cfg.d
k_fa_size == cfg.B_c * cfg.d
v_fa_size == cfg.B_c * cfg.d
s_fa_size == cfg.B_r * cfg.B_c
p_fa_size == cfg.B_r * cfg.B_c
o_fa_size == cfg.B_r * cfg.d
m_i_size == cfg.B_r
m_i_prev_size == m_i_size
l_i_size == cfg.B_r

Q_fa == snrt_l1_next
K_fa == Q_fa + q_fa_size
V_fa == K_fa + k_fa_size
S_fa == V_fa + v_fa_size
P_fa == S_fa + s_fa_size
O_fa == P_fa + p_fa_size
m_i == O_fa + o_fa_size
m_i_prev == m_i + m_i_size
l_i == m_i_prev + m_i_prev_size
\* the allocation cursor after the last allocation of the kernel entry
FaTcdmPtr0 == l_i + l_i_size

\* rows of the element-wise phases assigned to a core
rows_per_core == cfg.B_r \div cfg.num_cores
start_row(c) == rows_per_core * snrt_global_core_idx(c)
end_row(c) == start_row(c) + rows_per_core

\* words of scratchpad the model keeps: every address a run can touch
FaTcdmWords ==
    LET maxrow == rows_per_core * (cfg.num_clusters * (cfg.num_cores + 1))
        m == IF cfg.B_c > cfg.d THEN cfg.B_c ELSE cfg.d
    IN  FaTcdmPtr0 + T_r * T_c * cfg.B_c * cfg.d + (maxrow + 1) * m

---------------------------------------------------------------------------
(* The external GEMM and transpose primitives, from their contract:        *)
(* C = alpha * A * op(B) + beta * C, with beta = 0 overwriting C; the      *)
(* compute cores of a cluster share the rows of C, row m going to the      *)
(* core with cluster index m mod num_cores.                                *)

RECURSIVE GemmDot(_, _, _, _, _, _, _, _, _, _)
GemmDot(mem, transb, K, A, lda, B, ldb, m, n, k) ==
    IF k = K THEN Num(0)
    ELSE LET b == IF transb = 1 THEN mem[B + n * ldb + k] ELSE mem[B + k * ldb + n]
         IN  FAdd[FMul[mem[A + m * lda + k], b],
                  GemmDot(mem, transb, K, A, lda, B, ldb, m, n, k + 1)]

sc_st_gemm(mem, c, transb, M, Nn, K, alpha, A, lda, B, ldb, beta, C, ldc) ==
    LET mine == {m \in 0 .. M - 1 : m % cfg.num_cores = snrt_cluster_core_idx(c)}
        cell == {C + m * ldc + n : m \in mine, n \in 0 .. Nn - 1}
    IN  [a \in DOMAIN mem |->
            IF a \in cell
            THEN LET m == (a - C) \div ldc
                     n == (a - C) % ldc
                     ab == FMul[Num(alpha), GemmDot(mem, transb, K, A, lda, B, ldb, m, n, 0)]
                 IN  IF beta = 0 THEN ab ELSE FAdd[ab, FMul[Num(beta), mem[a]]]
            ELSE mem[a]]

\* dst = src^t for a rows x cols source
transpose_kernel(mem, src, dst, rows, cols) ==
    [a \in DOMAIN mem |->
        IF a \in dst .. dst + rows * cols - 1
        THEN LET j == (a - dst) \div rows
                 i == (a - dst) % rows
             IN  mem[src + i * cols + j]
        ELSE mem[a]]

---------------------------------------------------------------------------
(* flashattention_2_layer: the element-wise phases of a compute core       *)

\* lines 128-132: reset the statistics of the rows row .. end-1
RECURSIVE FaInitRows(_, _, _)
FaInitRows(mem, row, end) ==
    IF row >= end THEN mem
    ELSE Then(Wr(Wr(Wr(mem, m_i + row, NegInf), m_i_prev + row, NegInf), l_i + row, Num(0)),
             LAMBDA m : FaInitRows(m, row + 1, end))

\* lines 196-199: running maximum over the columns col .. B_c-1 of a row
RECURSIVE FaRowMax(_, _, _)
FaRowMax(mem, row, col) ==
    IF col >= cfg.B_c THEN mem
    ELSE LET val == mem[S_fa + row * cfg.B_c + col]
         IN  Then(IF FGt[val, mem[m_i + row]] THEN Wr(mem, m_i + row, val) ELSE mem,
                 LAMBDA m : FaRowMax(m, row, col + 1))

\* lines 202-206: P = exp(S - m_i) and its row sum
RECURSIVE FaRowP(_, _, _, _)
FaRowP(mem, row, col, row_sum) ==
    IF col >= cfg.B_c THEN [mem |-> mem, row_sum |-> row_sum]
    ELSE LET a == row * cfg.B_c + col
         IN  Then(Wr(mem, P_fa + a, FExp[FSub[mem[S_fa + a], mem[m_i + row]]]),
                 LAMBDA m : FaRowP(m, row, col + 1, FAdd[row_sum, m[P_fa + a]]))

\* the rescaling of one element of an O row by shifted_exp (line 220)
FaRescale(o, shifted_exp) == FDiv[o, shifted_exp]

\* lines 219-221
RECURSIVE FaRowRescale(_, _, _, _)
FaRowRescale(mem, row, col, shifted_exp) ==
    IF col >= cfg.d THEN mem
    ELSE Then(Wr(mem, O_fa + row * cfg.d + col,
                FaRescale(mem[O_fa + row * cfg.d + col], shifted_exp)),
             LAMBDA m : FaRowRescale(m, row, col + 1, shifted_exp))

\* lines 209-214: the rescaling factor and the running sum l_i
FaUpdateL(mem, row, tc, shifted_exp, row_sum) ==
    IF tc # 0
    THEN Wr(mem, l_i + row, FAdd[FMul[mem[l_i + row], shifted_exp], row_sum])
    ELSE Wr(mem, l_i + row, row_sum)

\* lines 188-222: one row of the statistics update of column block tc
FaSoftmaxRow(mem, row, tc) ==
    Then(FaRowMax(Wr(mem, m_i_prev + row, mem[m_i + row]), row, 0), LAMBDA m1 :
    Then(FaRowP(m1, row, 0, Num(0)), LAMBDA p :
    Then(FExp[FSub[p.mem[m_i_prev + row], p.mem[m_i + row]]], LAMBDA shifted_exp :
    Then(FaUpdateL(p.mem, row, tc, shifted_exp, p.row_sum), LAMBDA m3 :
        IF tc # 0 THEN FaRowRescale(m3, row, 0, shifted_exp) ELSE m3))))

\* line 187: the loop over the rows of the core
RECURSIVE FaSoftmaxRows(_, _, _, _)
FaSoftmaxRows(mem, row, end, tc) ==
    IF row >= end THEN mem
    ELSE Then(FaSoftmaxRow(mem, row, tc), LAMBDA m : FaSoftmaxRows(m, row + 1, end, tc))

\* lines 278-280: O[row] /= l_i[row]
RECURSIVE FaRowDivide(_, _, _)
FaRowDivide(mem, row, col) ==
    IF col >= cfg.d THEN mem
    ELSE Then(Wr(mem, O_fa + row * cfg.d + col,
                FDiv[mem[O_fa + row * cfg.d + col], mem[l_i + row]]),
             LAMBDA m : FaRowDivide(m, row, col + 1))

\* line 277
RECURSIVE FaNormaliseRows(_, _, _)
FaNormaliseRows(mem, row, end) ==
    IF row >= end THEN mem
    ELSE Then(FaRowDivide(mem, row, 0), LAMBDA m : FaNormaliseRows(m, row + 1, end))

\* FaBeta of a GEMM that accumulates into O_fa in every column block
FaBetaOne(tc) == 1

\* lines 235-236 and 255-256
FaBeta(tc) == IF tc = 0 THEN 0 ELSE 1

---------------------------------------------------------------------------
(* flashattention_2_layer: control flow.  A core stands at a source line:  *)
(* a barrier call, a DMA start or wait of the data mover, or a compute     *)
(* phase.  Role tests (snrt_is_dm_core, snrt_is_compute_core) and loop     *)
(* tests take no step of their own.                                        *)

FaBarrierLines ==
    {"L121", "L135", "L137", "L142", "L171", "L183", "L225", "L227", "L263",
     "L265", "L266", "L267", "L268", "L272", "L286", "L288", "L309"}

\* barrier calls inside the column-block loop (lines 141-270)
FaInnerLines == {"L142", "L171", "L183", "L225", "L227", "L263", "L265", "L266", "L267", "L268"}

\* line 103-106: the first stop of an outer iteration
FaOuterHead(c) == IF snrt_is_dm_core(c) THEN "L106" ELSE "L121"

\* line 141: t_c++ and the loop test
FaAfterInner(tc) == IF tc + 1 < T_c THEN "L142" ELSE "L272"

\* line 103: t_r++ and the loop test
FaAfterOuter(c, tr) == IF tr + 1 < T_r THEN FaOuterHead(c) ELSE "L309"

\* FaElseBranch with one of the four barrier calls of the else branch left out
FaElseBranchThree(line) ==
    CASE line = "L265" -> "L267"
      [] line = "L266" -> "L267"
      [] line = "L267" -> "L268"

\* lines 264-269: the barrier calls of a core that is not a compute core
FaElseBranch(line) ==
    CASE line = "L265" -> "L266"
      [] line = "L266" -> "L267"
      [] line = "L267" -> "L268"

\* the line a core stands at after the barrier call at `line` has returned,
\* with its loop counters
FaAfterBarrier(c, line, l) ==
    CASE line = "L121" -> [pc |-> IF snrt_is_compute_core(c) THEN "L127" ELSE "L135", loc |-> l]
      [] line = "L135" -> [pc |-> "L137", loc |-> l]
      [] line = "L137" -> [pc |-> IF 0 < T_c THEN "L142" ELSE "L272", loc |-> [l EXCEPT !.t_c = 0]]
      [] line = "L142" -> [pc |-> IF ~snrt_is_compute_core(c) THEN "L149" ELSE "L171", loc |-> l]
      [] line = "L171" -> [pc |-> IF snrt_is_compute_core(c) THEN "L179" ELSE "L265", loc |-> l]
      [] line = "L183" -> [pc |-> "L187", loc |-> l]
      [] line = "L225" -> [pc |-> "L227", loc |-> l]
      [] line = "L227" -> [pc |-> "L231", loc |-> l]
      [] line \in {"L263", "L268"} ->
            [pc |-> FaAfterInner(l.t_c), loc |-> [l EXCEPT !.t_c = @ + 1]]
      [] line \in {"L265", "L266", "L267"} -> [pc |-> FaElseBranch(line), loc |-> l]
      [] line = "L272" -> [pc |-> IF snrt_is_compute_core(c) THEN "L276" ELSE "L286", loc |-> l]
      [] line = "L286" -> [pc |-> "L288", loc |-> l]
      [] line = "L288" ->
            IF snrt_is_dm_core(c) THEN [pc |-> "L292", loc |-> l]
            ELSE [pc |-> FaAfterOuter(c, l.t_r), loc |-> [l EXCEPT !.t_r = @ + 1]]
      [] line = "L309" -> [pc |-> "done", loc |-> l]

\* barrier calls counted per iteration: inner / outer count the calls of the
\* running inner / outer iteration, innerDone / outerDone those of the last
\* finished one
NbarAfterBarrier(c, line, nb) ==
    LET inner == IF line \in FaInnerLines THEN nb.inner + 1 ELSE nb.inner
        outer == IF line = "L309" THEN nb.outer ELSE nb.outer + 1
        endInner == line \in {"L263", "L268"}
        endOuter == line = "L288" /\ ~snrt_is_dm_core(c)
    IN  [inner |-> IF endInner THEN 0 ELSE inner,
         innerDone |-> IF endInner THEN inner ELSE nb.innerDone,
         outer |-> IF endOuter THEN 0 ELSE outer,
         outerDone |-> IF endOuter THEN outer ELSE nb.outerDone]

---------------------------------------------------------------------------
(* flashattention_2_layer: the inputs of the runs                          *)

\* cluster counts of the attention runs
FaClusterCounts == {1, 2}

Divisors(n) == {k \in 1 .. n : n % k = 0}

\* layer structs and topologies: B_r | N, B_c | N, num_cores | B_r
FaConfigs ==
    {c \in [N : 1 .. MaxN, d : 1 .. MaxD, B_r : 1 .. MaxN, B_c : 1 .. MaxN,
            baseline : {0, 1}, num_cores : 1 .. MaxCores, num_clusters : FaClusterCounts] :
        /\ c.B_r \in Divisors(c.N)
        /\ c.B_c \in Divisors(c.N)
        /\ c.num_cores \in Divisors(c.B_r)}

\* the tensors Q, K, V: Q[r][k] = r + 1; the score rows grow with the column
\* ("inc") or fall ("dec"); V picks out row 0 ("first") or numbers the rows ("inc")
FaTensor(name, kpat, vpat, n, d) ==
    [a \in 0 .. n * d - 1 |->
        LET r == a \div d
        IN  CASE name = "Q" -> Num(r + 1)
              [] name = "K" -> Num(IF kpat = "inc" THEN r ELSE n - 1 - r)
              [] name = "V" -> Num(IF vpat = "first" THEN (IF r = 0 THEN 1 ELSE 0) ELSE r + 1)
              [] name = "O" -> Num(0)]

\* runs: a configuration, the input tensors and the initial scratchpad word.
\* Runs on several clusters use one compute core per cluster, d = 1 and one input.
FaRuns ==
    {r \in [cfg : FaConfigs, kpat : {"inc", "dec"}, vpat : {"first", "inc"},
            fill : {Num(0), Num(1)}] :
        r.cfg.num_clusters > 1 =>
            /\ r.cfg.num_cores = 1 /\ r.cfg.d = 1
            /\ r.kpat = "inc" /\ r.vpat = "first" /\ r.fill = Num(0)}

FaInit ==
    /\ kernel = "fa"
    /\ \E r \in FaRuns :
        /\ cfg = r.cfg
        /\ l3 = [t \in {"Q", "K", "V", "O"} |-> FaTensor(t, r.kpat, r.vpat, r.cfg.N, r.cfg.d)]
        /\ tcdm = [cl \in Clusters |-> [a \in 0 .. FaTcdmWords - 1 |-> r.fill]]
    /\ pc = [c \in Cores |-> FaOuterHead(c)]
    /\ loc = [c \in Cores |-> [t_r |-> 0, t_c |-> 0, tcdm_ptr |-> FaTcdmPtr0]]
    /\ dma = [cl \in Clusters |-> <<>>]
    /\ printed = [c \in Cores |-> <<>>]
    /\ nbar = [c \in Cores |-> [inner |-> 0, innerDone |-> 0, outer |-> 0, outerDone |-> 0]]
    /\ hist = [gen |-> [cl \in Clusters |-> 0],
               loaded |-> [cl \in Clusters |->
                              [t \in {"Q", "K", "V"} |-> [off |-> -1, gen |-> 0]]],
               wrote |-> [cl \in Clusters |-> {}],
               divided |-> [cl \in Clusters |-> {}]]

---------------------------------------------------------------------------
(* The DMA engine completes the oldest outstanding transfer of a cluster   *)

DmaComplete(cl) ==
    /\ dma[cl] # <<>>
    /\ LET x == Head(dma[cl])
       IN  /\ dma' = [dma EXCEPT ![cl] = Tail(@)]
           /\ IF x.dst.mem = "tcdm"
              THEN /\ tcdm' = [tcdm EXCEPT ![cl] = DmaCopy(x, cl, @)]
                   /\ l3' = l3
                   /\ hist' = [hist EXCEPT !.loaded[cl][x.src.mem] =
                                  [off |-> x.src.base, gen |-> hist.gen[cl]]]
              ELSE /\ l3' = [l3 EXCEPT ![x.dst.mem] = DmaCopy(x, cl, @)]
                   /\ tcdm' = tcdm
                   /\ hist' = [hist EXCEPT !.wrote[cl] = @ \cup DmaDstAddrs(x)]
    /\ UNCHANGED <<kernel, printed, cfg, pc, loc, nbar>>

---------------------------------------------------------------------------
(* flashattention_2_layer: the steps of the data mover                     *)

\* FaTransfers with the write-back of every row block going to the first rows
\* of O
FaTransfersRowZero(line, l) ==
    CASE line = "L106" ->
            <<snrt_dma_start_2d(Place("tcdm", Q_fa), Place("Q", l.t_r * cfg.B_r * cfg.d),
                                cfg.d, cfg.d, cfg.d, cfg.B_r)>>
      [] line = "L149" ->
            <<snrt_dma_start_2d(Place("tcdm", K_fa), Place("K", l.t_c * cfg.B_c * cfg.d),
                                cfg.d, cfg.d, cfg.d, cfg.B_c),
              snrt_dma_start_2d(Place("tcdm", V_fa), Place("V", l.t_c * cfg.B_c * cfg.d),
                                cfg.d, cfg.d, cfg.d, cfg.B_c)>>
      [] line = "L292" ->
            <<snrt_dma_start_2d(Place("O", 0), Place("tcdm", O_fa),
                                cfg.d, cfg.d, cfg.d, cfg.B_r)>>

\* lines 107-115, 151-165, 293-300: the transfers started at a line
FaTransfers(line, l) ==
    CASE line = "L106" ->
            <<snrt_dma_start_2d(Place("tcdm", Q_fa), Place("Q", l.t_r * cfg.B_r * cfg.d),
                                cfg.d, cfg.d, cfg.d, cfg.B_r)>>
      [] line = "L149" ->
            <<snrt_dma_start_2d(Place("tcdm", K_fa), Place("K", l.t_c * cfg.B_c * cfg.d),
                                cfg.d, cfg.d, cfg.d, cfg.B_c),
              snrt_dma_start_2d(Place("tcdm", V_fa), Place("V", l.t_c * cfg.B_c * cfg.d),
                                cfg.d, cfg.d, cfg.d, cfg.B_c)>>
      [] line = "L292" ->
            <<snrt_dma_start_2d(Place("O", l.t_r * cfg.B_r * cfg.d), Place("tcdm", O_fa),
                                cfg.d, cfg.d, cfg.d, cfg.B_r)>>

\* a scratchpad buffer is marked as being overwritten from the start of its transfer
MarkInFlight(h, cl, xs) ==
    [h EXCEPT !.loaded[cl] =
        [t \in DOMAIN @ |->
            IF \E i \in 1 .. Len(xs) : xs[i].dst.mem = "tcdm" /\ xs[i].src.mem = t
            THEN [off |-> -1, gen |-> h.gen[cl]] ELSE @[t]]]

FaDmStart(c) ==
    /\ kernel = "fa"
    /\ snrt_is_dm_core(c)
    /\ pc[c] \in {"L106", "L149", "L292"}
    /\ LET xs == FaTransfers(pc[c], loc[c])
       IN  /\ dma' = [dma EXCEPT ![c[1]] = @ \o xs]
           /\ hist' = MarkInFlight(hist, c[1], xs)
    /\ pc' = [pc EXCEPT ![c] = CASE pc[c] = "L106" -> "L117"
                                 [] pc[c] = "L149" -> "L167"
                                 [] pc[c] = "L292" -> "L302"]
    /\ UNCHANGED <<kernel, printed, cfg, loc, tcdm, l3, nbar>>

\* FaDmWait without the wait: the data mover goes on while transfers are outstanding
FaDmNoWait(c) ==
    /\ kernel = "fa"
    /\ pc[c] \in {"L117", "L167", "L302"}
    /\ pc' = [pc EXCEPT ![c] = CASE pc[c] = "L117" -> "L121"
                                 [] pc[c] = "L167" -> "L171"
                                 [] pc[c] = "L302" -> FaAfterOuter(c, loc[c].t_r)]
    /\ loc' = IF pc[c] = "L302" THEN [loc EXCEPT ![c].t_r = @ + 1] ELSE loc
    /\ nbar' = IF pc[c] = "L302"
               THEN [nbar EXCEPT ![c].outer = 0, ![c].outerDone = nbar[c].outer]
               ELSE nbar
    /\ UNCHANGED <<kernel, printed, cfg, tcdm, l3, dma, hist>>

\* lines 117, 167, 302: snrt_dma_wait_all returns
FaDmWait(c) ==
    /\ kernel = "fa"
    /\ pc[c] \in {"L117", "L167", "L302"}
    /\ dma[c[1]] = <<>>
    /\ pc' = [pc EXCEPT ![c] = CASE pc[c] = "L117" -> "L121"
                                 [] pc[c] = "L167" -> "L171"
                                 [] pc[c] = "L302" -> FaAfterOuter(c, loc[c].t_r)]
    /\ loc' = IF pc[c] = "L302" THEN [loc EXCEPT ![c].t_r = @ + 1] ELSE loc
    /\ nbar' = IF pc[c] = "L302"
               THEN [nbar EXCEPT ![c].outer = 0, ![c].outerDone = nbar[c].outer]
               ELSE nbar
    /\ UNCHANGED <<kernel, printed, cfg, tcdm, l3, dma, hist>>

---------------------------------------------------------------------------
(* flashattention_2_layer: the steps of a compute core                     *)

\* lines 127-133
FaInitStats(c) ==
    /\ kernel = "fa"
    /\ pc[c] = "L127"
    /\ tcdm' = [tcdm EXCEPT ![c[1]] = FaInitRows(@, start_row(c), end_row(c))]
    /\ pc' = [pc EXCEPT ![c] = "L135"]
    /\ UNCHANGED <<kernel, printed, cfg, loc, l3, dma, nbar, hist>>

\* FaGemmS of a core that goes on to the statistics update without the
\* barrier of line 183
FaGemmSNoBarrier(c) ==
    /\ kernel = "fa"
    /\ pc[c] = "L179"
    /\ tcdm' = [tcdm EXCEPT ![c[1]] =
                   sc_st_gemm(@, c, 1, cfg.B_r, cfg.B_c, cfg.d, 1, Q_fa, cfg.d,
                              K_fa, cfg.d, 0, S_fa, cfg.B_c)]
    /\ pc' = [pc EXCEPT ![c] = "L187"]
    /\ UNCHANGED <<kernel, printed, cfg, loc, l3, dma, nbar, hist>>

\* lines 179-180: S = Q * K^t
FaGemmS(c) ==
    /\ kernel = "fa"
    /\ pc[c] = "L179"
    /\ tcdm' = [tcdm EXCEPT ![c[1]] =
                   sc_st_gemm(@, c, 1, cfg.B_r, cfg.B_c, cfg.d, 1, Q_fa, cfg.d,
                              K_fa, cfg.d, 0, S_fa, cfg.B_c)]
    /\ pc' = [pc EXCEPT ![c] = "L183"]
    /\ UNCHANGED <<kernel, printed, cfg, loc, l3, dma, nbar, hist>>

\* lines 187-223
FaSoftmax(c) ==
    /\ kernel = "fa"
    /\ pc[c] = "L187"
    /\ tcdm' = [tcdm EXCEPT ![c[1]] =
                   FaSoftmaxRows(@, start_row(c), end_row(c), loc[c].t_c)]
    /\ pc' = [pc EXCEPT ![c] = "L225"]
    /\ UNCHANGED <<kernel, printed, cfg, loc, l3, dma, nbar, hist>>

\* lines 231-259: O = P * V + beta * O, through V^t unless baseline
FaPV(mem, c, l) ==
    IF cfg.baseline # 0
    THEN sc_st_gemm(mem, c, 0, cfg.B_r, cfg.d, cfg.B_c, 1, P_fa, cfg.B_c,
                    V_fa, cfg.d, FaBeta(l.t_c), O_fa, cfg.d)
    ELSE LET V_t == l.tcdm_ptr
         IN  Then(transpose_kernel(mem, V_fa, V_t, cfg.B_c, cfg.d), LAMBDA m :
                 sc_st_gemm(m, c, 1, cfg.B_r, cfg.d, cfg.B_c, 1, P_fa, cfg.B_c,
                            V_t, cfg.B_c, FaBeta(l.t_c), O_fa, cfg.d))

FaGemmO(c) ==
    /\ kernel = "fa"
    /\ pc[c] = "L231"
    /\ tcdm' = [tcdm EXCEPT ![c[1]] = FaPV(@, c, loc[c])]
    /\ loc' = IF cfg.baseline # 0 THEN loc
              ELSE [loc EXCEPT ![c].tcdm_ptr = @ + cfg.B_c * cfg.d]
    /\ pc' = [pc EXCEPT ![c] = "L263"]
    /\ UNCHANGED <<kernel, printed, cfg, l3, dma, nbar, hist>>

\* lines 276-284
FaNormalise(c) ==
    /\ kernel = "fa"
    /\ pc[c] = "L276"
    /\ tcdm' = [tcdm EXCEPT ![c[1]] = FaNormaliseRows(@, start_row(c), end_row(c))]
    /\ pc' = [pc EXCEPT ![c] = "L286"]
    /\ hist' = [hist EXCEPT !.divided[c[1]] =
                    @ \cup {<<loc[c].t_r, row>> : row \in start_row(c) .. end_row(c) - 1}]
    /\ UNCHANGED <<kernel, printed, cfg, loc, l3, dma, nbar>>

\* snrt_cluster_hw_barrier: when every core of the cluster stands at a
\* barrier call, all the calls return
FaBarrier(cl) ==
    /\ kernel = "fa"
    /\ \A c \in CoresOf(cl) : pc[c] \in FaBarrierLines
    /\ pc' = [c \in Cores |->
                 IF c[1] = cl THEN FaAfterBarrier(c, pc[c], loc[c]).pc ELSE pc[c]]
    /\ loc' = [c \in Cores |->
                  IF c[1] = cl THEN FaAfterBarrier(c, pc[c], loc[c]).loc ELSE loc[c]]
    /\ nbar' = [c \in Cores |->
                   IF c[1] = cl THEN NbarAfterBarrier(c, pc[c], nbar[c]) ELSE nbar[c]]
    /\ hist' = [hist EXCEPT !.gen[cl] = @ + 1]
    /\ UNCHANGED <<kernel, printed, cfg, tcdm, l3, dma>>

FaNext ==
    \/ \E c \in Cores : FaDmStart(c)
    \/ \E c \in Cores : FaDmWait(c)
    \/ \E cl \in Clusters : DmaComplete(cl)
    \/ \E c \in Cores : FaInitStats(c)
    \/ \E c \in Cores : FaGemmS(c)
    \/ \E c \in Cores : FaSoftmax(c)
    \/ \E c \in Cores : FaGemmO(c)
    \/ \E c \in Cores : FaNormalise(c)
    \/ \E cl \in Clusters : FaBarrier(cl)

SpecFA == FaInit /\ [][FaNext]_vars

\* every core keeps running and every started transfer completes
FairFA ==
    /\ SpecFA
    /\ WF_vars(FaNext)

FaDone == \A c \in Cores : pc[c] = "done"

---------------------------------------------------------------------------
(* Reference attention, computed directly on the tensors in main memory    *)

RECURSIVE RefScoreSum(_, _, _)
RefScoreSum(r, j, k) ==
    IF k = cfg.d THEN Num(0)
    ELSE FAdd[FMul[l3["Q"][r * cfg.d + k], l3["K"][j * cfg.d + k]], RefScoreSum(r, j, k + 1)]

\* S[r][j] = Q[r] . K[j]
RefScore(r, j) == RefScoreSum(r, j, 0)

\* the largest score of row r over the columns 0 .. n-1
RefRowMax(r, n) ==
    CHOOSE m \in {RefScore(r, j) : j \in 0 .. n - 1} :
        \A j \in 0 .. n - 1 : ~FGt[RefScore(r, j), m]

\* sum over the columns j .. n-1 of exp(S[r][j] - m) * w(j), w = V[j][k] or 1 (k = -1)
RECURSIVE RefWeighted(_, _, _, _, _)
RefWeighted(r, m, k, j, n) ==
    IF j >= n THEN Num(0)
    ELSE FAdd[FMul[FExp[FSub[RefScore(r, j), m]],
                   IF k < 0 THEN Num(1) ELSE l3["V"][j * cfg.d + k]],
              RefWeighted(r, m, k, j + 1, n)]

\* softmax(Q[r] . K^t) . V, column k, over the columns 0 .. n-1
RefAttention(r, k, n) ==
    FDiv[RefWeighted(r, RefRowMax(r, n), k, 0, n), RefWeighted(r, RefRowMax(r, n), -1, 0, n)]

---------------------------------------------------------------------------
(* Claims about flashattention_2_layer                                     *)

\* C1: whenever two cores of a cluster both stand at a barrier call, they are
\* in the same outer and the same inner iteration and have made the same
\* number of barrier calls in it, and the iterations they finished last held
\* the same number of calls: data mover and compute cores call the barrier
\* equally often in every inner and every outer iteration.
C1_BarrierCallsMatch ==
    kernel = "fa" =>
        \A cl \in Clusters : \A c1, c2 \in CoresOf(cl) :
            (pc[c1] \in FaBarrierLines /\ pc[c2] \in FaBarrierLines) =>
                /\ loc[c1].t_r = loc[c2].t_r
                /\ loc[c1].t_c = loc[c2].t_c
                /\ (pc[c1] \in FaInnerLines) = (pc[c2] \in FaInnerLines)
                /\ nbar[c1] = nbar[c2]

\* the data mover and a compute core meet at the last barrier of the second
\* column block of the second row block
C1_Witness ==
    /\ kernel = "fa"
    /\ \E c1, c2 \in Cores :
        /\ c1[1] = c2[1]
        /\ pc[c1] = "L263" /\ pc[c2] = "L268"
        /\ loc[c1].t_r = 1 /\ loc[c1].t_c = 1
        /\ nbar[c1].innerDone > 0 /\ nbar[c1].outerDone > 0

\* C2 (as claimed): when a run on one cluster has finished, every row of O in
\* main memory is softmax(Q[r] . K^t) . V over all N columns.
C2_OutputIsAttention ==
    (kernel = "fa" /\ FaDone /\ cfg.num_clusters = 1) =>
        \A r \in 0 .. cfg.N - 1, k \in 0 .. cfg.d - 1 :
            l3["O"][r * cfg.d + k] = RefAttention(r, k, cfg.N)

\* C3 (as claimed): in a run on one cluster, after the P.V update of column
\* block t_c every row of O_fa is the sum, over the columns of the blocks
\* 0 .. t_c, of exp(S[row][j] - m_i[row]) * V[j], and O_fa[row] / l_i[row] is
\* the attention over those columns.
C3_PartialOutput ==
    (kernel = "fa" /\ cfg.num_clusters = 1) =>
        \A cl \in Clusters :
            (\A c \in ComputeCoresOf(cl) : pc[c] = "L263") =>
                LET l == loc[<<cl, 0>>]
                    n == (l.t_c + 1) * cfg.B_c
                IN  \A row \in 0 .. cfg.B_r - 1, k \in 0 .. cfg.d - 1 :
                        LET r == l.t_r * cfg.B_r + row
                            o == tcdm[cl][O_fa + row * cfg.d + k]
                        IN  /\ o = RefWeighted(r, tcdm[cl][m_i + row], k, 0, n)
                            /\ FDiv[o, tcdm[cl][l_i + row]] = RefAttention(r, k, n)

\* the scratchpad words buf .. buf+n-1 of cluster cl hold the words
\* off .. off+n-1 of tensor t
Holds(cl, buf, t, off, n) ==
    \A i \in 0 .. n - 1 : tcdm[cl][buf + i] = l3[t][off + i]

\* tensor t was loaded from offset off, and a barrier has returned since
LoadedBefore(cl, t, off) ==
    /\ hist.loaded[cl][t].off = off
    /\ hist.loaded[cl][t].gen < hist.gen[cl]

\* C6: a compute core about to read Q_fa and K_fa (line 179) or V_fa (line
\* 231) finds in them the row block t_r of Q and the column block t_c of K
\* and V, their transfers are complete and a barrier has returned since.
C6_ReadsAfterTransfer ==
    kernel = "fa" =>
        \A c \in Cores :
            LET cl == c[1]
                qoff == loc[c].t_r * cfg.B_r * cfg.d
                koff == loc[c].t_c * cfg.B_c * cfg.d
            IN  /\ pc[c] = "L179" =>
                    /\ LoadedBefore(cl, "Q", qoff) /\ Holds(cl, Q_fa, "Q", qoff, q_fa_size)
                    /\ LoadedBefore(cl, "K", koff) /\ Holds(cl, K_fa, "K", koff, k_fa_size)
                    /\ dma[cl] = <<>>
                /\ pc[c] = "L231" =>
                    /\ LoadedBefore(cl, "V", koff) /\ Holds(cl, V_fa, "V", koff, v_fa_size)
                    /\ dma[cl] = <<>>

\* a compute core reads the second column block of the second row block
C6_Witness ==
    /\ kernel = "fa"
    /\ \E c \in Cores : pc[c] = "L231" /\ loc[c].t_r = 1 /\ loc[c].t_c = 1

\* C7: every core of every cluster returns from the kernel
C7_AllCoresReturn == <>(kernel = "fa" /\ FaDone)

\* all cores have returned from a run with two row and two column blocks on
\* two compute cores, and from a run in optimized mode
C7_Witness ==
    /\ kernel = "fa" /\ FaDone
    /\ T_r = 2 /\ T_c = 2 /\ cfg.baseline = 0

\* C10 (as claimed): the data movers of different clusters write disjoint
\* sets of words of O.
C10_ClustersWriteDisjointRows ==
    kernel = "fa" =>
        \A cl1, cl2 \in Clusters :
            cl1 # cl2 => hist.wrote[cl1] \cap hist.wrote[cl2] = {}

---------------------------------------------------------------------------
(* layernorm_layer: tiling parameters and scratchpad layout (lines 424-460)*)

\* sizeof(float), sizeof(__fp16) and sizeof(double) in bytes
sizeof_float == 4
sizeof_fp16 == 2
sizeof_double == 8

\* the data types the layer knows (lines 425-428)
LnSupported(dtype) == dtype \in {"FP32", "FP16"}

\* A cell of the scratchpad and of main memory holds one element of the
\* layer's data type: sizes and addresses of a run are counted in cells of
\* LnCellBytes bytes (the cells of a run with another data type are floats).
LnCellBytes == IF cfg.dtype = "FP16" THEN sizeof_fp16 ELSE sizeof_float

\* the cells a float occupies
LnFloatCells == sizeof_float \div LnCellBytes

\* lines 424-431, in cells; with another data type the variable is read
\* uninitialised (lines 438-439) and holds what the stack held
data_type_size ==
    CASE cfg.dtype = "FP32" -> sizeof_float \div LnCellBytes
      [] cfg.dtype = "FP16" -> sizeof_fp16 \div LnCellBytes
      [] OTHER -> cfg.uninit.data_type_size

n_tiles_per_cluster == cfg.n_tiles \div snrt_cluster_num
tile_seq_len == cfg.seq_len \div cfg.n_tiles
tile_size == cfg.batch_size * tile_seq_len * cfg.embeddings * data_type_size
tile_offset == tile_seq_len * cfg.embeddings * data_type_size

\* lines 442-460: the four pointers are assigned for FP32 and FP16 only
local_itile == IF LnSupported(cfg.dtype) THEN snrt_l1_next ELSE cfg.uninit.local_itile
local_otile ==
    IF LnSupported(cfg.dtype) THEN local_itile + tile_size ELSE cfg.uninit.local_otile
remote_ifmap == IF LnSupported(cfg.dtype) THEN "ifmap" ELSE cfg.uninit.remote_ifmap
remote_ofmap == IF LnSupported(cfg.dtype) THEN "ofmap" ELSE cfg.uninit.remote_ofmap

\* tile_idx without the share of the cluster
tile_idxLocal(c, l) == l.cluster_tile_idx

\* line 467-468
tile_idx(c, l) == snrt_cluster_idx(c) * n_tiles_per_cluster + l.cluster_tile_idx

\* cells of scratchpad the model keeps: the two buffers of the largest tile,
\* and what a kernel on floats reaches behind them when the cells are halves
LnTcdmWords == (1 + LnFloatCells) * cfg.batch_size * cfg.seq_len * cfg.embeddings

---------------------------------------------------------------------------
(* layernorm_fp32_naive (lines 45-97), run by one compute core on the tile *)
(* in the scratchpad: input and output are cell addresses of float arrays  *)

\* &p[i] for a float *p
LnFloatAt(p, i) == p + LnFloatCells * i

\* p[i] for a float *p: when the cells are halves, the float is made of the
\* bits of two of them
LnLoadFloat(mem, p, i) == IF LnFloatCells = 1 THEN mem[LnFloatAt(p, i)] ELSE Other

\* p[i] = v for a float *p: when the cells are halves, each of the cells of
\* the float gets half of the bits of v
RECURSIVE LnStoreCells(_, _, _)
LnStoreCells(mem, a, k) ==
    IF k = 0 THEN mem ELSE LnStoreCells(Wr(mem, a + k - 1, Other), a, k - 1)

LnStoreFloat(mem, p, i, v) ==
    IF LnFloatCells = 1 THEN Wr(mem, LnFloatAt(p, i), v)
    ELSE LnStoreCells(mem, LnFloatAt(p, i), LnFloatCells)

\* the cells of p[0] .. p[n-1] for a float *p
LnFloatCellsOf(p, n) == {LnFloatAt(p, i) + k : i \in 0 .. n - 1, k \in 0 .. LnFloatCells - 1}

RECURSIVE LnRowSum(_, _, _, _)
LnRowSum(mem, a, i, embeddings) ==
    IF i >= embeddings THEN Num(0)
    ELSE FAdd[LnLoadFloat(mem, a, i), LnRowSum(mem, a, i + 1, embeddings)]

RECURSIVE LnRowSquares(_, _, _, _, _)
LnRowSquares(mem, a, i, embeddings, mean) ==
    IF i >= embeddings THEN Num(0)
    ELSE FAdd[FMul[FSub[LnLoadFloat(mem, a, i), mean], FSub[LnLoadFloat(mem, a, i), mean]],
              LnRowSquares(mem, a, i + 1, embeddings, mean)]

\* lines 87-91
RECURSIVE LnRowWrite(_, _, _, _, _, _, _)
LnRowWrite(mem, in, out, i, embeddings, mean, var) ==
    IF i >= embeddings THEN mem
    ELSE Then(LnStoreFloat(mem, out, i, FDivSqrt[FSub[LnLoadFloat(mem, in, i), mean], var]),
              LAMBDA m : LnRowWrite(m, in, out, i + 1, embeddings, mean, var))

\* lines 70-91: one row; eps is the int32_t parameter of the kernel
LnRow(mem, in, out, embeddings, eps) ==
    Then(FDiv[LnRowSum(mem, in, 0, embeddings), Num(embeddings)], LAMBDA mean :
    Then(FAdd[FDiv[LnRowSquares(mem, in, 0, embeddings, mean), Num(embeddings)], Num(eps)],
         LAMBDA var : LnRowWrite(mem, in, out, 0, embeddings, mean, var)))

\* lines 56-58, 63: the rows a core works on
LnOffset(c, embeddings) == snrt_cluster_core_idx(c) * embeddings
LnStride(embeddings) == snrt_cluster_compute_core_num * embeddings
LnCoreSeqLen(seq_len) == seq_len \div snrt_cluster_compute_core_num

\* the element offsets, within the tile, of the rows core c works on
LnCoreRows(c, batch_size, seq_len, embeddings) ==
    {b * (seq_len * embeddings) + s * LnStride(embeddings) + LnOffset(c, embeddings) :
        b \in 0 .. batch_size - 1, s \in 0 .. LnCoreSeqLen(seq_len) - 1}

\* lines 68-93: the loops over b and s, in order
RECURSIVE LnLoop(_, _, _, _, _, _, _, _, _, _)
LnLoop(mem, c, input, output, batch_size, seq_len, embeddings, eps, b, s) ==
    IF b >= batch_size THEN mem
    ELSE IF s >= LnCoreSeqLen(seq_len)
         THEN LnLoop(mem, c, input, output, batch_size, seq_len, embeddings, eps, b + 1, 0)
         ELSE LET a == b * (seq_len * embeddings) + s * LnStride(embeddings)
                       + LnOffset(c, embeddings)
              IN  Then(LnRow(mem, LnFloatAt(input, a), LnFloatAt(output, a), embeddings, eps),
                       LAMBDA m :
                       LnLoop(m, c, input, output, batch_size, seq_len, embeddings, eps,
                              b, s + 1))

layernorm_fp32_naive(mem, c, input, output, batch_size, seq_len, embeddings, eps) ==
    IF snrt_is_compute_core(c)
    THEN LnLoop(mem, c, input, output, batch_size, seq_len, embeddings, eps, 0, 0)
    ELSE mem

\* the cells layernorm_fp32_naive stores to (line 89)
LnNaiveStores(c, output, batch_size, seq_len, embeddings) ==
    IF snrt_is_compute_core(c)
    THEN UNION {LnFloatCellsOf(LnFloatAt(output, a), embeddings) :
                    a \in LnCoreRows(c, batch_size, seq_len, embeddings)}
    ELSE {}

---------------------------------------------------------------------------
(* layernorm_fp32_opt (lines 99-247) and layernorm_fp16_opt (lines 303-418)*)

UNROLL == 4

\* line 115: the floats of a 64-bit vector
num_elems_per_vector == sizeof_double \div sizeof_float

\* lines 145-146: the repetitions of the frep loops; the loops take n_frep - 1
\* (lines 177, 219, 237), so the kernel needs n_frep >= 1
n_frep(embeddings) == embeddings \div (UNROLL * num_elems_per_vector)

\* the elements of a row the streams of lines 117-142 go through
LnOptElems(embeddings) == n_frep(embeddings) * UNROLL * num_elems_per_vector

\* lines 185-192: the variance loop streams x - mean to the output row
RECURSIVE LnOptRowCentre(_, _, _, _, _, _)
LnOptRowCentre(mem, in, out, i, n, mean) ==
    IF i >= n THEN mem
    ELSE Then(LnStoreFloat(mem, out, i, FSub[LnLoadFloat(mem, in, i), mean]),
              LAMBDA m : LnOptRowCentre(m, in, out, i + 1, n, mean))

\* lines 227-238: the output row is read back and multiplied by 1 / sqrt(var)
RECURSIVE LnOptRowScale(_, _, _, _, _)
LnOptRowScale(mem, out, i, n, var) ==
    IF i >= n THEN mem
    ELSE Then(LnStoreFloat(mem, out, i, FMulRsqrt[LnLoadFloat(mem, out, i), var]),
              LAMBDA m : LnOptRowScale(m, out, i + 1, n, var))

\* lines 148-241: one row
LnOptRow(mem, in, out, embeddings, eps) ==
    LET n == LnOptElems(embeddings)
    IN  Then(FDiv[LnRowSum(mem, in, 0, n), Num(embeddings)], LAMBDA mean :
        Then(FAdd[FDiv[LnRowSquares(mem, in, 0, n, mean), Num(embeddings)], Num(eps)],
             LAMBDA var :
        Then(LnOptRowCentre(mem, in, out, 0, n, mean),
             LAMBDA m : LnOptRowScale(m, out, 0, n, var))))

\* lines 116-243: the loops over b and s, in order
RECURSIVE LnOptLoop(_, _, _, _, _, _, _, _, _, _)
LnOptLoop(mem, c, input, output, batch_size, seq_len, embeddings, eps, b, s) ==
    IF b >= batch_size THEN mem
    ELSE IF s >= LnCoreSeqLen(seq_len)
         THEN LnOptLoop(mem, c, input, output, batch_size, seq_len, embeddings, eps, b + 1, 0)
         ELSE LET a == b * (seq_len * embeddings) + s * LnStride(embeddings)
                       + LnOffset(c, embeddings)
              IN  Then(LnOptRow(mem, LnFloatAt(input, a), LnFloatAt(output, a), embeddings, eps),
                       LAMBDA m :
                       LnOptLoop(m, c, input, output, batch_size, seq_len, embeddings, eps,
                                 b, s + 1))

layernorm_fp32_opt(mem, c, input, output, batch_size, seq_len, embeddings, eps) ==
    IF snrt_is_compute_core(c)
    THEN LnOptLoop(mem, c, input, output, batch_size, seq_len, embeddings, eps, 0, 0)
    ELSE mem

\* the cells layernorm_fp32_opt stores to (the write stream of lines 141-142)
LnOptStores(c, output, batch_size, seq_len, embeddings) ==
    IF snrt_is_compute_core(c)
    THEN UNION {LnFloatCellsOf(LnFloatAt(output, a), LnOptElems(embeddings)) :
                    a \in LnCoreRows(c, batch_size, seq_len, embeddings)}
    ELSE {}

\* layernorm_fp16_opt computes the mean of each row (lines 360-393) and stops
\* there: the write stream of lines 342-343 is set up, nothing is pushed to it
layernorm_fp16_opt(mem, c, input, output, batch_size, seq_len, embeddings, eps) == mem

\* the cells layernorm_fp16_opt stores to
LnHalfOptStores(c, output, batch_size, seq_len, embeddings) == {}

---------------------------------------------------------------------------
(* layernorm_layer: control flow                                           *)

\* the diagnostic of lines 430, 459 and 501
Unsupported == "Unsupported data type"

\* LnEntryPrints of an entry that reports nothing
LnEntryPrintsNone(dtype) == <<>>

\* lines 425-431 and 447-460: what a core prints on entry
LnEntryPrints(dtype) == IF LnSupported(dtype) THEN <<>> ELSE <<Unsupported, Unsupported>>

\* lines 464-470: the first stop of a tile iteration, or line 525 after the last
LnHead(c, idx) ==
    IF idx < n_tiles_per_cluster
    THEN (IF snrt_is_dm_core(c) THEN "L470" ELSE "L484")
    ELSE "L525"

\* LnAfterBarrier for a data mover that does not call the barrier of line 506
LnAfterBarrierOnce(c, line, l) ==
    CASE line = "L484" ->
            [pc |-> IF snrt_is_compute_core(c) THEN "L488" ELSE "L509", loc |-> l]
      [] line = "L506" ->
            IF snrt_is_dm_core(c) THEN [pc |-> "L509", loc |-> l]
            ELSE [pc |-> LnHead(c, l.cluster_tile_idx + 1),
                  loc |-> [l EXCEPT !.cluster_tile_idx = @ + 1]]

\* the line a core stands at after the cluster barrier at `line` has returned
LnAfterBarrier(c, line, l) ==
    CASE line = "L484" ->
            [pc |-> "L488", loc |-> l]
      [] line = "L506" ->
            IF snrt_is_dm_core(c) THEN [pc |-> "L509", loc |-> l]
            ELSE [pc |-> LnHead(c, l.cluster_tile_idx + 1),
                  loc |-> [l EXCEPT !.cluster_tile_idx = @ + 1]]

\* lines 471-479 and 511-519: the transfer started at a line
LnTransfer(c, line, l) ==
    CASE line = "L470" ->
            snrt_dma_start_2d(Place("tcdm", local_itile),
                              Place(remote_ifmap, tile_idx(c, l) * tile_offset),
                              tile_seq_len * cfg.embeddings * data_type_size,
                              tile_seq_len * cfg.embeddings * data_type_size,
                              cfg.seq_len * cfg.embeddings * data_type_size,
                              cfg.batch_size)
      [] line = "L509" ->
            snrt_dma_start_2d(Place(remote_ofmap, tile_idx(c, l) * tile_offset),
                              Place("tcdm", local_otile),
                              tile_seq_len * cfg.embeddings * data_type_size,
                              cfg.seq_len * cfg.embeddings * data_type_size,
                              tile_seq_len * cfg.embeddings * data_type_size,
                              cfg.batch_size)

---------------------------------------------------------------------------
(* layernorm_layer: the inputs of the runs                                 *)

\* cluster counts of the layer normalisation runs
LnClusterCounts == {1, 2}

\* the uninitialised locals of lines 424 and 442-445 when every branch that
\* assigns them is taken
LnAssigned ==
    [data_type_size |-> 0, local_itile |-> 0, local_otile |-> 0,
     remote_ifmap |-> "ifmap", remote_ofmap |-> "ofmap"]

\* what the locals can hold when no branch assigns them: a size of zero or
\* of one cell, buffers at the start or in the middle of the scratchpad,
\* either tensor
LnUninit(batch_size, seq_len, embeddings) ==
    [data_type_size : {0, 1}, local_itile : {0},
     local_otile : {0, batch_size * seq_len * embeddings},
     remote_ifmap : {"ifmap", "ofmap"}, remote_ofmap : {"ifmap", "ofmap"}]

\* the embeddings of the runs that compare the kernels of a data type: one
\* round of the frep loops (lines 115-118 and 320-323)
LnVectorEmbeddings(dtype) ==
    UNROLL * (sizeof_double \div (IF dtype = "FP16" THEN sizeof_fp16 ELSE sizeof_float))

\* layer structs and topologies: n_tiles | seq_len, num_clusters | n_tiles.
\* The baseline kernel runs on FP32 tensors of all shapes; both kernels of
\* each data type run on short tensors whose rows fill the vector loops;
\* the data types the layer does not know are FP64 and FP8.
LnConfigs ==
    {c \in [batch_size : 1 .. MaxBatch, seq_len : 1 .. MaxSeqLen,
            embeddings : {LnEmbeddings}, n_tiles : 1 .. MaxSeqLen, baseline : {1},
            eps : {Num(1)}, dtype : {"FP32"}, num_cores : 1 .. MaxCores,
            num_clusters : LnClusterCounts, uninit : {LnAssigned}] :
        /\ c.n_tiles \in Divisors(c.seq_len)
        /\ c.num_clusters \in Divisors(c.n_tiles)}
    \cup
    {c \in [batch_size : {1}, seq_len : {1, 2},
            embeddings : {LnVectorEmbeddings("FP32"), LnVectorEmbeddings("FP16")},
            n_tiles : {1, 2}, baseline : {0, 1},
            eps : {Num(1)}, dtype : {"FP32", "FP16"}, num_cores : {1, 2},
            num_clusters : {1}, uninit : {LnAssigned}] :
        /\ c.n_tiles \in Divisors(c.seq_len)
        /\ c.embeddings = LnVectorEmbeddings(c.dtype)}
    \cup
    {c \in [batch_size : {1}, seq_len : {1, 2}, embeddings : {LnEmbeddings},
            n_tiles : {1, 2}, baseline : {0, 1},
            eps : {Num(1)}, dtype : {"FP64", "FP8"}, num_cores : {1},
            num_clusters : {1}, uninit : LnUninit(1, 2, LnEmbeddings)] :
        /\ c.n_tiles \in Divisors(c.seq_len)
        /\ c.uninit.local_otile \in {0, c.seq_len * c.embeddings}}
    \cup
    {c \in [batch_size : {1}, seq_len : {1}, embeddings : {LnEmbeddings, LnVectorEmbeddings("FP32")},
            n_tiles : {1}, baseline : {0, 1},
            eps : {Fin[1, 2]}, dtype : {"FP32"}, num_cores : {1},
            num_clusters : {1}, uninit : {LnAssigned}] :
        c.embeddings = IF c.baseline = 1 THEN LnEmbeddings ELSE LnVectorEmbeddings("FP32")}

\* ifmap: element i of row r is 2*i*(r+1) ("rows": every row has its own
\* spread) or 2*i ("same"); ofmap starts as zeros
LnTensor(name, pat, c) ==
    [a \in 0 .. c.batch_size * c.seq_len * c.embeddings - 1 |->
        LET r == a \div c.embeddings
            i == a % c.embeddings
        IN  IF name = "ifmap" THEN Num(2 * i * (IF pat = "rows" THEN r + 1 ELSE 1))
            ELSE Num(0)]

\* runs: a configuration, the input and the initial scratchpad word.
\* Runs on several clusters use one input.
LnRuns ==
    {r \in [cfg : LnConfigs, pat : {"rows", "same"}, fill : {Num(0), Num(1)}] :
        (r.cfg.num_clusters > 1 \/ r.cfg.embeddings # LnEmbeddings \/ ~LnSupported(r.cfg.dtype))
            => (r.pat = "rows" /\ r.fill = Num(0))}

\* the record of which core normalised which row of the tile in the scratchpad
LnNoRows == [r \in 0 .. cfg.batch_size * cfg.seq_len - 1 |-> <<>>]

LnInit ==
    /\ kernel = "ln"
    /\ \E r \in LnRuns :
        /\ cfg = r.cfg
        /\ l3 = [t \in {"ifmap", "ofmap"} |-> LnTensor(t, r.pat, r.cfg)]
        /\ tcdm = [cl \in Clusters |-> [a \in 0 .. LnTcdmWords - 1 |-> r.fill]]
    /\ pc = [c \in Cores |-> "L424"]
    /\ loc = [c \in Cores |-> [cluster_tile_idx |-> 0]]
    /\ dma = [cl \in Clusters |-> <<>>]
    /\ printed = [c \in Cores |-> <<>>]
    /\ nbar = [c \in Cores |-> [inner |-> 0, innerDone |-> 0, outer |-> 0, outerDone |-> 0]]
    /\ hist = [gen |-> [cl \in Clusters |-> 0],
               loaded |-> [cl \in Clusters |->
                              [t \in {"ifmap", "ofmap"} |-> [off |-> -1, gen |-> 0]]],
               wrote |-> [cl \in Clusters |-> {}],
               kwrote |-> [cl \in Clusters |-> {}],
               naive |-> [set |-> FALSE, ofmap |-> <<>>, wrote |-> <<>>, kwrote |-> <<>>],
               kdone |-> [c \in Cores |-> 0],
               normBy |-> [cl \in Clusters |-> LnNoRows],
               tiles |-> [cl \in Clusters |-> [L470 |-> <<>>, L509 |-> <<>>]],
               ktiles |-> [c \in Cores |-> <<>>],
               untiled |-> [set |-> FALSE, ofmap |-> <<>>]]

---------------------------------------------------------------------------
(* layernorm_layer: the steps of the cores                                 *)

\* lines 424-463: a core enters the layer and reports a data type the
\* layer does not know
LnEntry(c) ==
    /\ kernel = "ln"
    /\ pc[c] = "L424"
    /\ printed' = [printed EXCEPT ![c] = @ \o LnEntryPrints(cfg.dtype)]
    /\ pc' = [pc EXCEPT ![c] = LnHead(c, 0)]
    /\ UNCHANGED <<kernel, cfg, loc, tcdm, l3, dma, nbar, hist>>

\* lines 470-479 and 509-519
LnDmStart(c) ==
    /\ kernel = "ln"
    /\ snrt_is_dm_core(c)
    /\ pc[c] \in {"L470", "L509"}
    /\ LET xs == <<LnTransfer(c, pc[c], loc[c])>>
       IN  /\ dma' = [dma EXCEPT ![c[1]] = @ \o xs]
           /\ hist' = [MarkInFlight(hist, c[1], xs) EXCEPT
                          !.tiles[c[1]][pc[c]] = Append(@, tile_idx(c, loc[c]))]
    /\ pc' = [pc EXCEPT ![c] = IF pc[c] = "L470" THEN "L480" ELSE "L520"]
    /\ UNCHANGED <<kernel, printed, cfg, loc, tcdm, l3, nbar>>

\* LnDmWait without the wait: the data mover goes on while the transfer is
\* outstanding
LnDmNoWait(c) ==
    /\ kernel = "ln"
    /\ pc[c] \in {"L480", "L520"}
    /\ pc' = [pc EXCEPT ![c] = IF pc[c] = "L480" THEN "L484"
                               ELSE LnHead(c, loc[c].cluster_tile_idx + 1)]
    /\ loc' = IF pc[c] = "L520" THEN [loc EXCEPT ![c].cluster_tile_idx = @ + 1] ELSE loc
    /\ nbar' = IF pc[c] = "L520"
               THEN [nbar EXCEPT ![c].inner = 0, ![c].innerDone = nbar[c].inner]
               ELSE nbar
    /\ UNCHANGED <<kernel, printed, cfg, tcdm, l3, dma, hist>>

\* lines 480 and 520: snrt_dma_wait_all returns; after line 520 the data
\* mover goes to the next tile
LnDmWait(c) ==
    /\ kernel = "ln"
    /\ pc[c] \in {"L480", "L520"}
    /\ dma[c[1]] = <<>>
    /\ pc' = [pc EXCEPT ![c] = IF pc[c] = "L480" THEN "L484"
                               ELSE LnHead(c, loc[c].cluster_tile_idx + 1)]
    /\ loc' = IF pc[c] = "L520" THEN [loc EXCEPT ![c].cluster_tile_idx = @ + 1] ELSE loc
    /\ nbar' = IF pc[c] = "L520"
               THEN [nbar EXCEPT ![c].inner = 0, ![c].innerDone = nbar[c].inner]
               ELSE nbar
    /\ UNCHANGED <<kernel, printed, cfg, tcdm, l3, dma, hist>>

\* lines 488-503: the kernel the layer calls on the tile
LnKernelCall(mem, c) ==
    IF cfg.baseline = 1
    THEN layernorm_fp32_naive(mem, c, local_itile, local_otile, cfg.batch_size,
                              tile_seq_len, cfg.embeddings, FloatToInt32[cfg.eps])
    ELSE CASE cfg.dtype = "FP32" ->
                layernorm_fp32_opt(mem, c, local_itile, local_otile, cfg.batch_size,
                                   tile_seq_len, cfg.embeddings, FloatToInt32[cfg.eps])
           [] cfg.dtype = "FP16" ->
                layernorm_fp16_opt(mem, c, local_itile, local_otile, cfg.batch_size,
                                   tile_seq_len, cfg.embeddings, FloatToInt32[cfg.eps])
           [] OTHER -> mem

\* the cells the kernel of lines 488-503 stores to
LnKernelStores(c) ==
    IF cfg.baseline = 1
    THEN LnNaiveStores(c, local_otile, cfg.batch_size, tile_seq_len, cfg.embeddings)
    ELSE CASE cfg.dtype = "FP32" ->
                LnOptStores(c, local_otile, cfg.batch_size, tile_seq_len, cfg.embeddings)
           [] cfg.dtype = "FP16" ->
                LnHalfOptStores(c, local_otile, cfg.batch_size, tile_seq_len, cfg.embeddings)
           [] OTHER -> {}

\* lines 488-497 with the signatures of lines 45, 99 and 303: the bytes of an
\* element of the arrays the called kernel takes (float * or __fp16 *)
LnKernelElemBytes ==
    IF cfg.baseline = 1 THEN sizeof_float
    ELSE IF cfg.dtype = "FP16" THEN sizeof_fp16 ELSE sizeof_float

\* lines 488-503: whether a kernel is called at all
LnKernelRuns == cfg.baseline = 1 \/ LnSupported(cfg.dtype)

\* line 501: what a core prints in place of the kernel call
LnDispatchPrints == IF LnKernelRuns THEN <<>> ELSE <<Unsupported>>

\* lines 487-504: a core passes the kernel call; the kernels return at once
\* on the data mover
LnKernel(c) ==
    /\ kernel = "ln"
    /\ pc[c] = "L488"
    /\ tcdm' = [tcdm EXCEPT ![c[1]] = LnKernelCall(@, c)]
    /\ printed' = [printed EXCEPT ![c] = @ \o LnDispatchPrints]
    /\ pc' = [pc EXCEPT ![c] = "L506"]
    /\ hist' = IF snrt_is_compute_core(c)
               THEN [hist EXCEPT
                        !.kdone[c] = @ + 1,
                        !.ktiles[c] = IF LnKernelRuns THEN Append(@, tile_idx(c, loc[c])) ELSE @,
                        !.kwrote[c[1]] = @ \cup LnKernelStores(c),
                        !.normBy[c[1]] =
                            [r \in DOMAIN @ |->
                                IF LnKernelRuns /\ r * cfg.embeddings \in
                                       LnCoreRows(c, cfg.batch_size, tile_seq_len,
                                                  cfg.embeddings)
                                THEN Append(@[r], snrt_cluster_core_idx(c)) ELSE @[r]]]
               ELSE hist
    /\ UNCHANGED <<kernel, cfg, loc, l3, dma, nbar>>

\* snrt_cluster_hw_barrier (lines 484, 506): when every core of the cluster
\* stands at a barrier call, all the calls return
LnBarrier(cl) ==
    /\ kernel = "ln"
    /\ \A c \in CoresOf(cl) : pc[c] \in {"L484", "L506"}
    /\ pc' = [c \in Cores |->
                 IF c[1] = cl THEN LnAfterBarrier(c, pc[c], loc[c]).pc ELSE pc[c]]
    /\ loc' = [c \in Cores |->
                  IF c[1] = cl THEN LnAfterBarrier(c, pc[c], loc[c]).loc ELSE loc[c]]
    /\ nbar' = [c \in Cores |->
                   IF c[1] # cl THEN nbar[c]
                   ELSE IF pc[c] = "L506" /\ snrt_is_compute_core(c)
                        THEN [nbar[c] EXCEPT !.inner = 0, !.innerDone = nbar[c].inner + 1]
                        ELSE [nbar[c] EXCEPT !.inner = @ + 1]]
    /\ hist' = [hist EXCEPT
                   !.gen[cl] = @ + 1,
                   !.normBy[cl] = IF \A c \in CoresOf(cl) : pc[c] = "L484"
                                  THEN LnNoRows ELSE @]
    /\ UNCHANGED <<kernel, printed, cfg, tcdm, l3, dma>>

\* LnGlobalBarrier as a barrier of one cluster
LnClusterBarrierAtEnd ==
    /\ kernel = "ln"
    /\ \E cl \in Clusters :
        /\ \A c \in CoresOf(cl) : pc[c] = "L525"
        /\ pc' = [c \in Cores |-> IF c[1] = cl THEN "done" ELSE pc[c]]
        /\ nbar' = [c \in Cores |->
                       IF c[1] = cl THEN [nbar[c] EXCEPT !.outer = @ + 1] ELSE nbar[c]]
    /\ UNCHANGED <<kernel, printed, cfg, loc, tcdm, l3, dma, hist>>

\* snrt_global_barrier (line 525): returns when every core of every cluster
\* has called it; the cores then return from the layer.  nbar[c].outer counts
\* the calls of the global barrier that have returned on core c.
LnGlobalBarrier ==
    /\ kernel = "ln"
    /\ \A c \in Cores : pc[c] = "L525"
    /\ pc' = [c \in Cores |-> "done"]
    /\ nbar' = [c \in Cores |-> [nbar[c] EXCEPT !.outer = @ + 1]]
    /\ UNCHANGED <<kernel, printed, cfg, loc, tcdm, l3, dma, hist>>

LnDone == \A c \in Cores : pc[c] = "done"

\* the tiling invariance test: after a call with n_tiles = 1 has returned,
\* the layer is called again on the same ifmap with n_tiles = k and a fresh
\* ofmap; the scratchpad keeps what the first call left in it
LnCallAgain ==
    /\ kernel = "ln"
    /\ LnDone
    /\ ~hist.untiled.set /\ ~hist.naive.set
    /\ cfg.n_tiles = 1
    /\ \E k \in Divisors(cfg.seq_len) \ {1} :
        /\ cfg.num_clusters \in Divisors(k)
        /\ cfg' = [cfg EXCEPT !.n_tiles = k]
    /\ pc' = [c \in Cores |-> "L424"]
    /\ loc' = [c \in Cores |-> [cluster_tile_idx |-> 0]]
    /\ l3' = [l3 EXCEPT !["ofmap"] = [a \in DOMAIN @ |-> Num(0)]]
    /\ nbar' = [c \in Cores |-> [inner |-> 0, innerDone |-> 0, outer |-> 0, outerDone |-> 0]]
    /\ hist' = [hist EXCEPT !.kdone = [c \in Cores |-> 0],
                            !.wrote = [cl \in Clusters |-> {}],
                            !.kwrote = [cl \in Clusters |-> {}],
                            !.tiles = [cl \in Clusters |-> [L470 |-> <<>>, L509 |-> <<>>]],
                            !.ktiles = [c \in Cores |-> <<>>],
                            !.untiled = [set |-> TRUE, ofmap |-> l3["ofmap"]]]
    /\ UNCHANGED <<kernel, printed, tcdm, dma>>

\* the comparison of the two code paths: after a call with baseline = 1 has
\* returned, the layer is called again on the same ifmap with baseline = 0
\* and a fresh ofmap; the scratchpad keeps what the first call left in it
LnCallVectorised ==
    /\ kernel = "ln"
    /\ LnDone
    /\ ~hist.untiled.set /\ ~hist.naive.set
    /\ cfg.baseline = 1
    /\ LnSupported(cfg.dtype)
    /\ cfg.embeddings = LnVectorEmbeddings(cfg.dtype)
    /\ cfg' = [cfg EXCEPT !.baseline = 0]
    /\ pc' = [c \in Cores |-> "L424"]
    /\ loc' = [c \in Cores |-> [cluster_tile_idx |-> 0]]
    /\ l3' = [l3 EXCEPT !["ofmap"] = [a \in DOMAIN @ |-> Num(0)]]
    /\ nbar' = [c \in Cores |-> [inner |-> 0, innerDone |-> 0, outer |-> 0, outerDone |-> 0]]
    /\ hist' = [hist EXCEPT !.kdone = [c \in Cores |-> 0],
                            !.wrote = [cl \in Clusters |-> {}],
                            !.kwrote = [cl \in Clusters |-> {}],
                            !.tiles = [cl \in Clusters |-> [L470 |-> <<>>, L509 |-> <<>>]],
                            !.ktiles = [c \in Cores |-> <<>>],
                            !.naive = [set |-> TRUE, ofmap |-> l3["ofmap"],
                                       wrote |-> hist.wrote, kwrote |-> hist.kwrote]]
    /\ UNCHANGED <<kernel, printed, tcdm, dma>>

LnNext ==
    \/ \E c \in Cores : LnEntry(c)
    \/ \E c \in Cores : LnDmStart(c)
    \/ \E c \in Cores : LnDmWait(c)
    \/ \E cl \in Clusters : DmaComplete(cl)
    \/ \E c \in Cores : LnKernel(c)
    \/ \E cl \in Clusters : LnBarrier(cl)
    \/ LnGlobalBarrier
    \/ LnCallAgain
    \/ LnCallVectorised

SpecLN == LnInit /\ [][LnNext]_vars

\* every core keeps running and every started transfer completes
FairLN ==
    /\ SpecLN
    /\ WF_vars(LnNext)

---------------------------------------------------------------------------
(* Layer normalisation of a row of ifmap, for reference                    *)

RECURSIVE RefRowSum(_, _)
RefRowSum(row, i) ==
    IF i >= cfg.embeddings THEN Num(0)
    ELSE FAdd[l3["ifmap"][row * cfg.embeddings + i], RefRowSum(row, i + 1)]

RefMean(row) == FDiv[RefRowSum(row, 0), Num(cfg.embeddings)]

RECURSIVE RefSquares(_, _)
RefSquares(row, i) ==
    IF i >= cfg.embeddings THEN Num(0)
    ELSE LET dev == FSub[l3["ifmap"][row * cfg.embeddings + i], RefMean(row)]
         IN  FAdd[FMul[dev, dev], RefSquares(row, i + 1)]

RefVar(row) == FDiv[RefSquares(row, 0), Num(cfg.embeddings)]

\* (x - mean) / sqrt(var + eps), with the eps of the layer struct
RefLayerNorm(row, i) ==
    FDivSqrt[FSub[l3["ifmap"][row * cfg.embeddings + i], RefMean(row)],
             FAdd[RefVar(row), cfg.eps]]

---------------------------------------------------------------------------
(* Claims about layernorm_layer                                            *)

\* the input buffer of cluster cl holds tile t of ifmap
LnHoldsTile(cl, t) ==
    \A b \in 0 .. cfg.batch_size - 1, j \in 0 .. tile_offset - 1 :
        tcdm[cl][local_itile + b * tile_offset + j]
            = l3[remote_ifmap][t * tile_offset
                               + b * cfg.seq_len * cfg.embeddings * data_type_size + j]

\* C4: while the data mover starts or runs the write-back of a tile, every
\* compute core of its cluster has finished the row kernel on that tile; and
\* a compute core about to run the row kernel finds the tile of the input
\* tensor in local_itile, its transfer complete and a barrier returned since.
C4_TransfersOrdered ==
    kernel = "ln" =>
        \A c \in Cores :
            /\ (snrt_is_dm_core(c) /\ pc[c] \in {"L509", "L520"}) =>
                   \A k \in ComputeCoresOf(c[1]) :
                       /\ hist.kdone[k] = loc[c].cluster_tile_idx + 1
                       /\ pc[k] # "L488"
            /\ (snrt_is_compute_core(c) /\ pc[c] = "L488") =>
                   /\ dma[c[1]] = <<>>
                   /\ LoadedBefore(c[1], remote_ifmap, tile_idx(c, loc[c]) * tile_offset)
                   /\ LnHoldsTile(c[1], tile_idx(c, loc[c]))

\* the data mover writes back the second tile of its cluster while the
\* transfer is outstanding, and a compute core is about to read a second tile
C4_Witness ==
    /\ kernel = "ln"
    /\ cfg.num_cores = 2
    /\ \E c \in Cores :
        /\ snrt_is_dm_core(c) /\ pc[c] = "L520" /\ dma[c[1]] # <<>>
        /\ loc[c].cluster_tile_idx = 1
    /\ \E c \in Cores :
        snrt_is_compute_core(c) /\ pc[c] = "L488" /\ loc[c].cluster_tile_idx = 1

\* C5 (as claimed): when the layer has returned, every element of ofmap is
\* the normalisation of its row of ifmap.
C5_EveryRowNormalised ==
    (kernel = "ln" /\ LnDone) =>
        \A row \in 0 .. cfg.batch_size * cfg.seq_len - 1, i \in 0 .. cfg.embeddings - 1 :
            l3["ofmap"][row * cfg.embeddings + i] = RefLayerNorm(row, i)

\* C8 (as claimed): the call with n_tiles = k leaves in ofmap what the call
\* with n_tiles = 1 left on the same ifmap and the same clusters and cores.
C8_TilingInvariant ==
    (kernel = "ln" /\ LnDone /\ hist.untiled.set) =>
        l3["ofmap"] = hist.untiled.ofmap

\* C9 (as claimed): when the compute cores of a cluster have finished the row
\* kernel on a tile, row i of every batch of the tile has been normalised
\* once, by the core i mod the number of compute cores.
C9_RowOncePerCore ==
    kernel = "ln" =>
        \A cl \in Clusters :
            (\A c \in ComputeCoresOf(cl) : pc[c] = "L506") =>
                \A b \in 0 .. cfg.batch_size - 1, i \in 0 .. tile_seq_len - 1 :
                    hist.normBy[cl][b * tile_seq_len + i]
                        = <<i % snrt_cluster_compute_core_num>>

---------------------------------------------------------------------------
(* Both kernels                                                            *)

Init == FaInit \/ LnInit

Next == FaNext \/ LnNext

Spec == Init /\ [][Next]_vars

---------------------------------------------------------------------------
(* Claims about the end of the kernels and the order of their phases       *)

\* the data mover of cluster cl
DmOf(cl) == <<cl, cfg.num_cores>>

\* C11: once a core of any cluster has returned from layernorm_layer, the
\* data mover of every cluster has started the write-back of each of its
\* tiles and none of its transfers is outstanding.
C11_ReturnAfterWriteBacks ==
    (kernel = "ln" /\ \E c \in Cores : pc[c] = "done") =>
        \A cl \in Clusters :
            /\ Len(hist.tiles[cl].L509) = n_tiles_per_cluster
            /\ dma[cl] = <<>>

\* a core has returned from a run on two clusters with two tiles each
C11_Witness ==
    /\ kernel = "ln"
    /\ cfg.num_clusters = 2 /\ n_tiles_per_cluster = 2
    /\ \E c \in Cores : pc[c] = "done"

\* C12 (as claimed): once a core of any cluster has returned from
\* flashattention_2_layer, the data mover of every cluster has finished the
\* write-back of its last row block of O.
C12_ReturnAfterWriteBacks ==
    (kernel = "fa" /\ \E c \in Cores : pc[c] = "done") =>
        \A cl \in Clusters :
            /\ pc[DmOf(cl)] \in {"L309", "done"}
            /\ dma[cl] = <<>>

\* C13 (as claimed): when the compute cores of a cluster have finished the
\* last column block, m_i[row] is the largest score of the row and l_i[row]
\* the sum of exp(S[row][j] - m_i[row]) over all N columns, for every row of
\* the row block: values that do not depend on the order of the blocks.
C13_FinalStatistics ==
    kernel = "fa" =>
        \A cl \in Clusters :
            (\A c \in ComputeCoresOf(cl) : pc[c] = "L272") =>
                \A row \in 0 .. cfg.B_r - 1 :
                    LET r == loc[<<cl, 0>>].t_r * cfg.B_r + row
                    IN  /\ tcdm[cl][m_i + row] = RefRowMax(r, cfg.N)
                        /\ tcdm[cl][l_i + row]
                               = RefWeighted(r, RefRowMax(r, cfg.N), -1, 0, cfg.N)

\* the lines of a compute core inside the column-block loop
FaComputeInnerLines == {"L142", "L171", "L179", "L183", "L187", "L225", "L227", "L231", "L263"}

\* C14 (as claimed): while a compute core is inside the column-block loop, no
\* step lowers m_i of a row it owns, m_i_prev is never above m_i, the
\* statistics update of a block leaves in m_i_prev the value m_i had before
\* it, and no other step changes m_i or m_i_prev of the row.
C14_RunningMaxGrows ==
    [][kernel = "fa" =>
        \A c \in Cores :
            (snrt_is_compute_core(c) /\ pc[c] \in FaComputeInnerLines
                                     /\ pc'[c] \in FaComputeInnerLines) =>
                \A row \in start_row(c) .. end_row(c) - 1 :
                    LET m0 == tcdm[c[1]][m_i + row]
                        m1 == tcdm'[c[1]][m_i + row]
                        p0 == tcdm[c[1]][m_i_prev + row]
                        p1 == tcdm'[c[1]][m_i_prev + row]
                    IN  /\ ~FGt[m0, m1]
                        /\ ~FGt[p1, m1]
                        /\ IF pc[c] = "L187" /\ pc'[c] = "L225"
                           THEN p1 = m0
                           ELSE p1 = p0 /\ m1 = m0]_vars

\* C15 (as claimed): while the data mover starts or runs the write-back of
\* row block t_r, every compute core of its cluster has divided its rows by
\* l_i in this outer iteration, and every row of O_fa has been divided.
C15_WriteBackAfterDivision ==
    kernel = "fa" =>
        \A cl \in Clusters :
            pc[DmOf(cl)] \in {"L292", "L302"} =>
                LET t == loc[DmOf(cl)].t_r
                IN  /\ \A c \in ComputeCoresOf(cl) :
                           \A row \in start_row(c) .. end_row(c) - 1 :
                               <<t, row>> \in hist.divided[cl]
                    /\ \A row \in 0 .. cfg.B_r - 1 : <<t, row>> \in hist.divided[cl]

\* the tiles of cluster cl, in order
LnTilesOf(cl) == [i \in 1 .. n_tiles_per_cluster |-> cl * n_tiles_per_cluster + i - 1]

\* C16: when the layer has returned, the data mover of cluster cl has loaded
\* and written back the tiles cl*n_tiles/num_clusters ..
\* (cl+1)*n_tiles/num_clusters - 1, each once and in order, every compute core
\* of the cluster has run the kernel on each of them once (where the layer
\* calls a kernel: a known data type, or baseline = 1), the tiles of the
\* clusters together are 0 .. n_tiles-1, and at every moment the words of
\* ofmap written by different clusters are disjoint.
C16_TilesPartitioned ==
    kernel = "ln" =>
        /\ LnDone =>
              /\ \A cl \in Clusters :
                    /\ hist.tiles[cl].L470 = LnTilesOf(cl)
                    /\ hist.tiles[cl].L509 = LnTilesOf(cl)
                    /\ \A c \in ComputeCoresOf(cl) :
                          hist.ktiles[c] = IF LnKernelRuns THEN LnTilesOf(cl) ELSE <<>>
              /\ \A t \in 0 .. cfg.n_tiles - 1 :
                    Cardinality({cl \in Clusters :
                        \E i \in 1 .. n_tiles_per_cluster : LnTilesOf(cl)[i] = t}) = 1
        /\ \A cl1, cl2 \in Clusters :
              cl1 # cl2 => hist.wrote[cl1] \cap hist.wrote[cl2] = {}

\* a run on two clusters with two tiles each has returned
C16_Witness ==
    /\ kernel = "ln" /\ LnDone
    /\ cfg.num_clusters = 2 /\ n_tiles_per_cluster = 2
    /\ \A cl \in Clusters : hist.wrote[cl] # {}

\* C20: while a transfer of a cluster's data mover is outstanding, every
\* compute core of the cluster stands at a barrier call (or at the entry of
\* the layer, before its first barrier call), and no transfer into
\* the scratchpad is outstanding together with a transfer out of it.
C20_NoComputeDuringTransfer ==
    \A cl \in Clusters :
        dma[cl] # <<>> =>
            /\ \A c \in ComputeCoresOf(cl) :
                   pc[c] \in (IF kernel = "fa" THEN FaBarrierLines
                              ELSE {"L424", "L484", "L506", "L525"})
            /\ \A i, j \in 1 .. Len(dma[cl]) :
                   ~(dma[cl][i].dst.mem = "tcdm" /\ dma[cl][j].src.mem = "tcdm")

\* in each kernel a transfer of a second tile is outstanding while the
\* compute cores wait
C20_Witness ==
    \E cl \in Clusters :
        /\ dma[cl] # <<>>
        /\ cfg.num_cores = 2
        /\ \/ kernel = "ln" /\ loc[DmOf(cl)].cluster_tile_idx = 1
           \/ kernel = "fa" /\ loc[DmOf(cl)].t_c = 1

\* the core has started a transfer or passed the kernel call of a tile
LnTouchedTile(c) ==
    \/ snrt_is_dm_core(c) /\ (hist.tiles[c[1]].L470 # <<>> \/ hist.tiles[c[1]].L509 # <<>>)
    \/ hist.kdone[c] > 0
    \/ pc[c] \notin {"L424", "done"}

\* C17: with a data type the layer does not know, a core that starts a
\* transfer or reaches the kernel call of a tile has printed "Unsupported
\* data type" before, whatever baseline is; so the diagnostic is out before
\* any tile is transferred or computed.
C17_DiagnosticFirst ==
    (kernel = "ln" /\ ~LnSupported(cfg.dtype)) =>
        /\ \A c \in Cores :
              LnTouchedTile(c) => (printed[c] # <<>> /\ Head(printed[c]) = Unsupported)
        /\ (\E c \in Cores : LnTouchedTile(c)) =>
              \E c \in Cores : printed[c] # <<>>

\* with an unknown data type and baseline = 1 a compute core has run the
\* kernel on a tile the data mover transferred
C17_Witness ==
    /\ kernel = "ln" /\ ~LnSupported(cfg.dtype) /\ cfg.baseline = 1
    /\ \E c \in Cores : hist.ktiles[c] # <<>>
    /\ \E cl \in Clusters : hist.tiles[cl].L470 # <<>>

\* C18 (as claimed): with a data type the layer does not know the operation
\* is skipped: no transfer is started, no kernel runs and ofmap keeps its
\* contents, whatever baseline is.
C18_OperationSkipped ==
    (kernel = "ln" /\ ~LnSupported(cfg.dtype)) =>
        /\ \A cl \in Clusters :
              /\ dma[cl] = <<>>
              /\ hist.tiles[cl].L470 = <<>> /\ hist.tiles[cl].L509 = <<>>
              /\ hist.kwrote[cl] = {}
        /\ \A c \in Cores : hist.ktiles[c] = <<>>
        /\ \A a \in DOMAIN l3["ofmap"] : l3["ofmap"][a] = Num(0)

\* C19 (as claimed): when the call with baseline = 0 that follows a call with
\* baseline = 1 on the same input has returned, the two calls have written
\* the same cells of ofmap with the same contents, and the kernels of the
\* second call have stored to every cell of the output tile the kernels of
\* the first call stored to.
C19_PathsAgree ==
    (kernel = "ln" /\ hist.naive.set /\ LnDone) =>
        /\ \A cl \in Clusters :
              /\ hist.wrote[cl] = hist.naive.wrote[cl]
              /\ hist.naive.kwrote[cl] \subseteq hist.kwrote[cl]
        /\ l3["ofmap"] = hist.naive.ofmap

---------------------------------------------------------------------------
(* Further claims about flashattention_2_layer                             *)

\* C21 (as claimed): the allocation cursor tcdm_ptr of every core stays where
\* the allocations of the kernel entry left it, in every inner and outer
\* iteration, in baseline and in optimized mode; so the buffer allocated from
\* it (V_t) has one address.
C21_LayoutFixed ==
    kernel = "fa" => \A c \in Cores : loc[c].tcdm_ptr = FaTcdmPtr0

\* the rows start_row .. end_row-1 of a core
FaRowsOf(c) == start_row(c) .. end_row(c) - 1

\* C22 (as claimed): in every cluster the row ranges of the compute cores are
\* pairwise disjoint, lie in 0 .. B_r-1 and cover 0 .. B_r-1.
C22_RowsPartitioned ==
    kernel = "fa" =>
        \A cl \in Clusters :
            /\ \A c1, c2 \in ComputeCoresOf(cl) :
                  c1 # c2 => FaRowsOf(c1) \cap FaRowsOf(c2) = {}
            /\ UNION {FaRowsOf(c) : c \in ComputeCoresOf(cl)} = 0 .. cfg.B_r - 1

\* C23: in a cluster, while a compute core is in or past the statistics
\* update of lines 187-223 and before the barrier that ends it, every compute
\* core has left the S = Q.K^t GEMM of the same inner iteration; while one is
\* in or past the P.V GEMM of lines 231-259, every one has finished the
\* statistics update; while one is in or past the division of lines 276-282,
\* every one has finished the P.V GEMM of the last column block.
C23_PhasesOrdered ==
    kernel = "fa" =>
        \A cl \in Clusters : \A c1, c2 \in ComputeCoresOf(cl) :
            /\ pc[c1] \in {"L187", "L225"} =>
                  /\ pc[c2] \in {"L187", "L225"}
                  /\ loc[c2].t_r = loc[c1].t_r /\ loc[c2].t_c = loc[c1].t_c
            /\ pc[c1] \in {"L231", "L263"} =>
                  /\ pc[c2] \in {"L231", "L263"}
                  /\ loc[c2].t_r = loc[c1].t_r /\ loc[c2].t_c = loc[c1].t_c
            /\ pc[c1] \in {"L276", "L286"} =>
                  /\ pc[c2] \in {"L276", "L286"}
                  /\ loc[c2].t_r = loc[c1].t_r /\ loc[c2].t_c = T_c

\* in the second column block, one of two compute cores of a cluster has
\* finished the P.V GEMM and the other has not started it
C23_Witness ==
    /\ kernel = "fa"
    /\ \E c1, c2 \in Cores :
        /\ c1 # c2 /\ c1[1] = c2[1]
        /\ snrt_is_compute_core(c1) /\ snrt_is_compute_core(c2)
        /\ pc[c1] = "L263" /\ pc[c2] = "L231"
        /\ loc[c1].t_c = 1

C29_StatisticsReset ==
    kernel = "fa" =>
        \A c \in Cores :
            (snrt_is_compute_core(c) /\ pc[c] = "L142" /\ loc[c].t_c = 0) =>
                \A row \in 0 .. cfg.B_r - 1 :
                    /\ tcdm[c[1]][m_i + row] = NegInf
                    /\ tcdm[c[1]][m_i_prev + row] = NegInf
                    /\ tcdm[c[1]][l_i + row] = Num(0)

\* sum over k < B_c of P_fa[m][k] * V_fa[k][n], read from the scratchpad
RECURSIVE RefPV(_, _, _, _)
RefPV(mem, m, n, k) ==
    IF k = 0 THEN Num(0)
    ELSE FAdd[RefPV(mem, m, n, k - 1),
              FMul[mem[P_fa + m * cfg.B_c + (k - 1)], mem[V_fa + (k - 1) * cfg.d + n]]]

\* C30: in both modes, the P.V step of a compute core in column block t_c
\* leaves in each element of its rows of O_fa the product P_fa . V_fa alone
\* when t_c = 0 (beta = 0: what O_fa held, from the previous row block or from
\* before the call, does not enter), and the product added to the previous
\* content of the element when t_c > 0 (beta = 1).
C30_BetaByColumnBlock ==
    [][\A c \in Cores :
          (kernel = "fa" /\ pc[c] = "L231" /\ pc'[c] = "L263") =>
              \A m \in 0 .. cfg.B_r - 1 : \A n \in 0 .. cfg.d - 1 :
                  m % cfg.num_cores = snrt_cluster_core_idx(c) =>
                      LET a  == O_fa + m * cfg.d + n
                          pv == RefPV(tcdm[c[1]], m, n, cfg.B_c)
                      IN  tcdm'[c[1]][a] =
                              IF loc[c].t_c = 0 THEN pv
                              ELSE FAdd[pv, tcdm[c[1]][a]]]_vars

\* a compute core has done the P.V step of the first column block of the
\* second row block, and O_fa holds a non-zero element
C30_Witness ==
    /\ kernel = "fa"
    /\ \E c \in Cores :
          snrt_is_compute_core(c) /\ pc[c] = "L263" /\ loc[c].t_r = 1 /\ loc[c].t_c = 0
          /\ tcdm[c[1]][O_fa] # Num(0)

---------------------------------------------------------------------------
(* Further claims about layernorm_layer                                    *)

\* C25 (as claimed): while a compute core of a cluster has finished the row
\* kernel on a tile of floats, every element of a row the kernel has
\* normalised is (x - mean) / sqrt(var + eps), with mean and var of the row
\* in the input buffer and eps the float l.eps of the layer struct.
C25_EpsExact ==
    (kernel = "ln" /\ cfg.dtype = "FP32") =>
        \A cl \in Clusters :
            (\E c \in ComputeCoresOf(cl) : pc[c] = "L506") =>
                \A r \in DOMAIN hist.normBy[cl] :
                    hist.normBy[cl][r] # <<>> =>
                        LET in   == LnFloatAt(local_itile, r * cfg.embeddings)
                            out  == LnFloatAt(local_otile, r * cfg.embeddings)
                            mean == FDiv[LnRowSum(tcdm[cl], in, 0, cfg.embeddings),
                                         Num(cfg.embeddings)]
                            var  == FDiv[LnRowSquares(tcdm[cl], in, 0, cfg.embeddings, mean),
                                         Num(cfg.embeddings)]
                        IN  \A i \in 0 .. cfg.embeddings - 1 :
                                LnLoadFloat(tcdm[cl], out, i)
                                    = FDivSqrt[FSub[LnLoadFloat(tcdm[cl], in, i), mean],
                                               FAdd[var, cfg.eps]]

\* C26 (as claimed): with FP32 and with FP16, whatever baseline is, when a
\* compute core has passed the kernel call, the elements of the called
\* kernel have the width data_type_size of the configured data type, and the
\* cells the kernels of its cluster have stored to lie in the output tile.
C26_KernelWidth ==
    (kernel = "ln" /\ LnSupported(cfg.dtype)) =>
        \A c \in Cores :
            (snrt_is_compute_core(c) /\ pc[c] = "L506") =>
                /\ LnKernelElemBytes = data_type_size * LnCellBytes
                /\ hist.kwrote[c[1]] \subseteq local_otile .. local_otile + tile_size - 1

\* the pairs <<destination cell, source cell>> of transfer x
LnCopies(x) == {<<a, DmaSrcOf(x, a)>> : a \in DmaDstAddrs(x)}

\* the cell of element e of row s of batch b in a tile buffer at base, and in
\* a tensor of main memory
LnTileCell(base, b, s, e) == base + (b * tile_seq_len + s) * cfg.embeddings + e
LnTensorCell(b, s, e) == (b * cfg.seq_len + s) * cfg.embeddings + e

\* C27 (as claimed): the transfer the data mover has started for tile t
\* copies, while it is outstanding, from ifmap to the input buffer or from
\* the output buffer to ofmap, and pairs the cell of every element
\* (b, s, e) of the tile buffer, and no other cell, with the cell of element
\* (b, t * tile_seq_len + s, e) of the tensor.
C27_TileCoordinates ==
    kernel = "ln" =>
        \A cl \in Clusters : \A k \in 1 .. Len(dma[cl]) :
            LET x == dma[cl][k]
                t == tile_idx(DmOf(cl), loc[DmOf(cl)])
                elems == (0 .. cfg.batch_size - 1) \X (0 .. tile_seq_len - 1)
                             \X (0 .. cfg.embeddings - 1)
            IN  IF pc[DmOf(cl)] = "L480"
                THEN /\ x.dst.mem = "tcdm" /\ x.src.mem = "ifmap"
                     /\ LnCopies(x) =
                            {<<LnTileCell(local_itile, p[1], p[2], p[3]),
                               LnTensorCell(p[1], t * tile_seq_len + p[2], p[3])>> :
                                p \in elems}
                ELSE /\ x.dst.mem = "ofmap" /\ x.src.mem = "tcdm"
                     /\ LnCopies(x) =
                            {<<LnTensorCell(p[1], t * tile_seq_len + p[2], p[3]),
                               LnTileCell(local_otile, p[1], p[2], p[3])>> :
                                p \in elems}

\* the cluster barrier calls and global barrier calls of the cores so far:
\* two cluster barrier calls in every finished tile iteration, at most two in
\* the running one, no global barrier call returned before the core has
\* returned from the layer and one when it has, after all tiles of its cluster
LnBarrierCounts ==
    \A c \in Cores :
        /\ nbar[c].inner <= 2
        /\ loc[c].cluster_tile_idx > 0 => nbar[c].innerDone = 2
        /\ pc[c] \in {"L525", "done"} =>
               /\ loc[c].cluster_tile_idx = n_tiles_per_cluster
               /\ nbar[c].inner = 0
        /\ nbar[c].outer = IF pc[c] = "done" THEN 1 ELSE 0

\* C28: every core, data mover or compute core, with every data type and
\* either value of baseline, calls the cluster barrier twice in every tile
\* iteration and the global barrier once, after its last tile; and when the
\* cores keep running and the transfers complete, every core of every
\* cluster returns from the layer.
C28_BarriersAndReturn ==
    /\ [](kernel = "ln" => LnBarrierCounts)
    /\ <>(kernel = "ln" /\ LnDone)

\* every core has returned from a run with an unknown data type and two
\* tiles, the barrier calls of the last tile counted
C28_Witness ==
    /\ kernel = "ln" /\ LnDone
    /\ ~LnSupported(cfg.dtype) /\ n_tiles_per_cluster = 2
    /\ \A c \in Cores : nbar[c].innerDone = 2 /\ nbar[c].outer = 1

---------------------------------------------------------------------------
(* Ownership of scratchpad elements and of the rows of O                   *)

\* the elements of m_i, m_i_prev, l_i, P_fa and O_fa in the rows of the row
\* block that compute core c owns
FaOwnedCells(c) ==
    UNION {{m_i + row, m_i_prev + row, l_i + row}
              \cup {P_fa + row * cfg.B_c + j : j \in 0 .. cfg.B_c - 1}
              \cup {O_fa + row * cfg.d + k : k \in 0 .. cfg.d - 1} :
           row \in FaRowsOf(c) \cap (0 .. cfg.B_r - 1)}

\* the lines of the element-wise phases: statistics initialisation, row-wise
\* softmax with the rescaling of O_fa, final normalisation
FaElementWiseLines == {"L127", "L187", "L276"}

\* C31 (as claimed): a step of an element-wise phase by a compute core
\* changes only elements of m_i, m_i_prev, l_i, P_fa and O_fa in rows of the
\* row block the core owns, and no element is owned by two compute cores of
\* a cluster.
C31_OwnerWrites ==
    [][kernel = "fa" =>
          \A c \in Cores :
              /\ \A c2 \in ComputeCoresOf(c[1]) \ {c} :
                     snrt_is_compute_core(c) => FaOwnedCells(c) \cap FaOwnedCells(c2) = {}
              /\ (pc[c] \in FaElementWiseLines /\ pc'[c] # pc[c]) =>
                     \A a \in DOMAIN tcdm[c[1]] :
                         tcdm'[c[1]][a] # tcdm[c[1]][a] => a \in FaOwnedCells(c)]_vars

\* the words of the rows lo .. hi-1 of O
FaRowCells(lo, hi) == {r * cfg.d + k : r \in lo .. hi - 1, k \in 0 .. cfg.d - 1}

\* the row blocks of O whose write-back by the data mover of cluster cl is
\* complete
FaBlocksWritten(cl) ==
    IF pc[DmOf(cl)] = "L302" /\ dma[cl] = <<>>
    THEN loc[DmOf(cl)].t_r + 1 ELSE loc[DmOf(cl)].t_r

\* what the data mover of each cluster has written and is writing: the rows
\* of the finished row blocks, a transfer to O that covers the rows of row
\* block t_r and none written before, no transfer to Q, K or V, and all N
\* rows when the data mover has returned
FaWriteOnce ==
    \A cl \in Clusters :
        /\ hist.wrote[cl] = FaRowCells(0, FaBlocksWritten(cl) * cfg.B_r)
        /\ \A i \in 1 .. Len(dma[cl]) :
               LET x == dma[cl][i]
                   t_r == loc[DmOf(cl)].t_r
               IN  /\ x.dst.mem \in {"tcdm", "O"}
                   /\ x.dst.mem = "O" =>
                          /\ DmaDstAddrs(x) = FaRowCells(t_r * cfg.B_r, (t_r + 1) * cfg.B_r)
                          /\ DmaDstAddrs(x) \cap hist.wrote[cl] = {}
        /\ pc[DmOf(cl)] = "done" => hist.wrote[cl] = FaRowCells(0, cfg.N)

\* C32: the data mover of a cluster writes every row of O once: the
\* write-back of outer iteration t_r goes to the rows t_r*B_r ..
\* (t_r+1)*B_r-1, which no earlier write-back of the cluster has written, the
\* write-backs of a finished run cover the rows 0 .. N-1, and no step
\* changes Q, K or V.
C32_OutputWrittenOnce ==
    /\ [](kernel = "fa" => FaWriteOnce)
    /\ [][kernel = "fa" =>
             (l3'["Q"] = l3["Q"] /\ l3'["K"] = l3["K"] /\ l3'["V"] = l3["V"])]_vars

\* the data mover writes back the second row block while the first is in O
C32_Witness ==
    /\ kernel = "fa"
    /\ \E cl \in Clusters :
        /\ pc[DmOf(cl)] = "L302" /\ loc[DmOf(cl)].t_r = 1
        /\ dma[cl] # <<>> /\ Head(dma[cl]).dst.mem = "O"
        /\ hist.wrote[cl] = FaRowCells(0, cfg.B_r)

=============================================================================
